---- MODULE Spec2Model ----
(***************************************************************************)
(* A model of webtero: the page builder of src/webtero/zotero_reader.py    *)
(* (TabbedWebsite, WebPageTab, HtmlContent, HtmlImage) and the tab and     *)
(* image-tag handling of src/webtero/website_generator.py.                 *)
(*                                                                         *)
(* Python strings are sequences of one-character strings.  An optional     *)
(* value (Python None or a value) is a sequence of length 0 or 1.  A       *)
(* Python call that can raise is an operator whose result carries a field  *)
(* exc: "none", or the name of the exception that leaves the call.         *)
(***************************************************************************)
EXTENDS Integers, Sequences, FiniteSets, TLC

VARIABLES
    env,      \* the repository's answers and the behaviour of PIL (never changes)
    disk,     \* the files of the image directory
    twp_tabs, \* TabbedWebsite.tabs of the object twp of test_tabs
    st,       \* "new", "initialized" (initialize_data returned), "raised"
    info,     \* the info_str returned by initialize_data
    fetches,  \* the calls of get_attachment_file of this run, in order
    queries,  \* the item queries that directives made in this run, in order
    wg,       \* the TabbedWebsite object of website_generator.test_tabs
    pages,    \* what each create_html_file of this run wrote
    hist,     \* disk and fetches at the end of each earlier run
    call,     \* the arguments of a single call that is checked on its own
    ret       \* what that call returned, once it has been made

vars == <<env, disk, twp_tabs, st, info, fetches, queries, wg, pages, hist, call, ret>>

----------------------------------------------------------------------------
(* Optional values *)

None == <<>>

Some(x) == <<x>>

IsNone(o) == Len(o) = 0

----------------------------------------------------------------------------
(* Python string primitives *)

Digits == <<"0", "1", "2", "3", "4", "5", "6", "7", "8", "9">>

IsDigit(c) == \E i \in 1..10 : Digits[i] = c

DigitVal(c) == (CHOOSE i \in 1..10 : Digits[i] = c) - 1

\* str.split(sep): the parts between the occurrences of sep, at least one part
RECURSIVE Split(_, _)
Split(s, sep) ==
    IF \A i \in 1..Len(s) : s[i] # sep
    THEN <<s>>
    ELSE LET k == CHOOSE i \in 1..Len(s) :
                      s[i] = sep /\ \A j \in 1..(i - 1) : s[j] # sep
         IN  <<SubSeq(s, 1, k - 1)>> \o Split(SubSeq(s, k + 1, Len(s)), sep)

\* int(s) raises ValueError unless s is a non-empty run of digits
IntOk(s) == Len(s) > 0 /\ \A i \in 1..Len(s) : IsDigit(s[i])

RECURSIVE IntVal(_)
IntVal(s) ==
    IF Len(s) = 0 THEN 0
    ELSE 10 * IntVal(SubSeq(s, 1, Len(s) - 1)) + DigitVal(s[Len(s)])

\* str(n) for n >= 0
RECURSIVE Str(_)
Str(n) == IF n < 10 THEN <<Digits[n + 1]>>
          ELSE Str(n \div 10) \o <<Digits[(n % 10) + 1]>>

StartsWith(s, c) == Len(s) > 0 /\ s[1] = c

Tail1(s) == SubSeq(s, 2, Len(s))

\* str.lower() on the letters the model uses, then replace(' ', '-')
LowerChar(c) == CASE c = "A" -> "a" [] c = "H" -> "h" [] c = " " -> "-" [] OTHER -> c

HtmlId(s) == [i \in 1..Len(s) |-> LowerChar(s[i])]

----------------------------------------------------------------------------
(* HtmlContent.discover_missing_images: the filename size-hint convention *)

ImgHrefPrefix == <<"i", "m", "g", "/">>

BigBound == 1200

BigSuffix == <<"_", "w">> \o Str(BigBound) \o <<"_", "h">> \o Str(BigBound) \o <<".">>

\* a file name in which a height token before a width token changes place
\* with it
Basename_canonical(src) ==
    LET parts == Split(src, "/")
        dot == Split(parts[Len(parts)], ".")
        name_parts == Split(dot[1], "_")
    IN  IF /\ Len(dot) = 2 /\ Len(name_parts) = 3
           /\ StartsWith(name_parts[2], "h") /\ StartsWith(name_parts[3], "w")
        THEN name_parts[1] \o <<"_">> \o name_parts[3] \o <<"_">> \o name_parts[2]
             \o <<".">> \o dot[2]
        ELSE parts[Len(parts)]

\* os.path.split(urlparse(src).path)[1] for a src without scheme, query or
\* fragment part: the text after the last '/'
Basename(src) == LET parts == Split(src, "/") IN parts[Len(parts)]

NoSize == [exc |-> "none", width |-> None, height |-> None]

\* one "if name_parts[k].startswith('h') ... elif ...startswith('w')" block;
\* wh is the (width, height) pair so far
ScanToken(tok, wh) ==
    IF StartsWith(tok, "h")
    THEN IF IntOk(Tail1(tok))
         THEN [wh EXCEPT !.height = Some(IntVal(Tail1(tok)))]
         ELSE [wh EXCEPT !.exc = "ValueError"]
    ELSE IF StartsWith(tok, "w")
    THEN IF IntOk(Tail1(tok))
         THEN [wh EXCEPT !.width = Some(IntVal(Tail1(tok)))]
         ELSE [wh EXCEPT !.exc = "ValueError"]
    ELSE wh

\* a decoder that reads name_parts[1] only
DecodeSize_first(name_parts) ==
    IF Len(name_parts) > 1 THEN ScanToken(name_parts[2], NoSize) ELSE NoSize

\* a decoder that reads every part after the first
RECURSIVE DecodeSize_every(_)
DecodeSize_every(name_parts) ==
    LET Last(wh) ==
            IF wh.exc # "none" THEN wh ELSE ScanToken(name_parts[Len(name_parts)], wh)
    IN  IF Len(name_parts) <= 1 THEN NoSize
        ELSE Last(DecodeSize_every(SubSeq(name_parts, 1, Len(name_parts) - 1)))

\* lines 306-316: width and height read from name_parts[1] and, when there
\* are exactly three parts, from name_parts[2] (Python indices)
DecodeSize(name_parts) ==
    LET Third(wh) ==
            IF wh.exc # "none" THEN wh
            ELSE IF Len(name_parts) = 3 THEN ScanToken(name_parts[3], wh) ELSE wh
    IN  Third(IF Len(name_parts) > 1 THEN ScanToken(name_parts[2], NoSize) ELSE NoSize)

\* a discover_missing_images that does not look whether the files exist
discover_missing_images_unchecked(missing_images, src, names) ==
    LET failed == [exc |-> "ValueError", missing_images |-> missing_images,
                   sml_img_href |-> <<>>, big_img_href |-> <<>>]
        \* lines 317-325
        Return(img_filename, big_img_filename, img_zot_title, image_details) ==
            [exc |-> "none",
             missing_images |->
                 IF image_details # <<>>
                 THEN Append(missing_images,
                             [title |-> img_zot_title, details |-> image_details])
                 ELSE missing_images,
             sml_img_href |-> ImgHrefPrefix \o img_filename,
             big_img_href |-> ImgHrefPrefix \o big_img_filename]
        Check(img_filename, big_img_filename, img_zot_title, wh) ==
            IF wh.exc # "none" THEN failed
            ELSE Return(img_filename, big_img_filename, img_zot_title,
                   (IF TRUE
                    THEN <<[loc |-> img_filename, width |-> wh.width,
                            height |-> wh.height]>>
                    ELSE <<>>)
                   \o
                   (IF TRUE
                    THEN <<[loc |-> big_img_filename, width |-> Some(BigBound),
                            height |-> Some(BigBound)]>>
                    ELSE <<>>))
        \* lines 296-303
        Names(img_filename, name_parts, img_extension) ==
            Check(img_filename,
                  name_parts[1] \o BigSuffix \o img_extension,
                  name_parts[1] \o <<".">> \o img_extension,
                  IF TRUE THEN DecodeSize(name_parts) ELSE NoSize)
        \* line 295: img_name, img_extension = img_filename.split('.')
        Unpack(img_filename, dot) ==
            IF Len(dot) # 2 THEN failed
            ELSE Names(img_filename, Split(dot[1], "_"), dot[2])
        File(img_filename) == Unpack(img_filename, Split(img_filename, "."))
    IN  File(Basename(src))

\* HtmlContent.discover_missing_images.  names is the set of file names
\* present in the image directory.  The result carries the small and big
\* hrefs and the missing_images list.
discover_missing_images(missing_images, src, names) ==
    LET failed == [exc |-> "ValueError", missing_images |-> missing_images,
                   sml_img_href |-> <<>>, big_img_href |-> <<>>]
        \* lines 317-325
        Return(img_filename, big_img_filename, img_zot_title, image_details) ==
            [exc |-> "none",
             missing_images |->
                 IF image_details # <<>>
                 THEN Append(missing_images,
                             [title |-> img_zot_title, details |-> image_details])
                 ELSE missing_images,
             sml_img_href |-> ImgHrefPrefix \o img_filename,
             big_img_href |-> ImgHrefPrefix \o big_img_filename]
        \* lines 304-320; wh is the decoded size, read only when the small
        \* file is missing
        Check(img_filename, big_img_filename, img_zot_title, wh) ==
            IF wh.exc # "none" THEN failed
            ELSE Return(img_filename, big_img_filename, img_zot_title,
                   (IF img_filename \notin names
                    THEN <<[loc |-> img_filename, width |-> wh.width,
                            height |-> wh.height]>>
                    ELSE <<>>)
                   \o
                   (IF big_img_filename \notin names
                    THEN <<[loc |-> big_img_filename, width |-> Some(BigBound),
                            height |-> Some(BigBound)]>>
                    ELSE <<>>))
        \* lines 296-303
        Names(img_filename, name_parts, img_extension) ==
            Check(img_filename,
                  name_parts[1] \o BigSuffix \o img_extension,
                  name_parts[1] \o <<".">> \o img_extension,
                  IF img_filename \notin names THEN DecodeSize(name_parts) ELSE NoSize)
        \* line 295: img_name, img_extension = img_filename.split('.')
        Unpack(img_filename, dot) ==
            IF Len(dot) # 2 THEN failed
            ELSE Names(img_filename, Split(dot[1], "_"), dot[2])
        File(img_filename) == Unpack(img_filename, Split(img_filename, "."))
    IN  File(Basename(src))

\* a replace_img that links the small image and shows the big one
replace_img_swapped(img, missing_images, names) ==
    LET Wrap(d) ==
            IF d.exc # "none"
            THEN [exc |-> d.exc, img |-> img, missing_images |-> d.missing_images]
            ELSE [exc |-> "none",
                  img |-> [img EXCEPT !.src = Some(d.big_img_href),
                                      !.href = Some(d.sml_img_href)],
                  missing_images |-> d.missing_images]
    IN  IF IsNone(img.src)
        THEN [exc |-> "AttributeError", img |-> img, missing_images |-> missing_images]
        ELSE Wrap(discover_missing_images(missing_images, img.src[1], names))

\* HtmlContent.replace_img: img is an element of the parsed note
replace_img(img, missing_images, names) ==
    LET Wrap(d) ==
            IF d.exc # "none"
            THEN [exc |-> d.exc, img |-> img, missing_images |-> d.missing_images]
            ELSE [exc |-> "none",
                  img |-> [img EXCEPT !.src = Some(d.sml_img_href),
                                      !.href = Some(d.big_img_href)],
                  missing_images |-> d.missing_images]
    IN  IF IsNone(img.src)
        THEN [exc |-> "AttributeError", img |-> img, missing_images |-> missing_images]
        ELSE Wrap(discover_missing_images(missing_images, img.src[1], names))

----------------------------------------------------------------------------
(* HtmlImage *)

\* a fit that keeps the wider of the two candidate sizes
FitSize_wider(img_w, img_h, width, height) ==
    LET Choose(size_1, size_2) == IF size_1[1] < size_2[1] THEN size_2 ELSE size_1
    IN  Choose(IF ~IsNone(width) /\ width[1] # 0 /\ width[1] < img_w
               THEN <<width[1], (width[1] * img_h) \div img_w>>
               ELSE <<img_w, img_h>>,
               IF ~IsNone(height) /\ height[1] # 0 /\ height[1] < img_h
               THEN <<(height[1] * img_w) \div img_h, height[1]>>
               ELSE <<img_w, img_h>>)

\* the size computed by create_image_file, lines 541-551.  width and height
\* are optional bounds; int(x / float(w) * h) is taken as the floor of the
\* exact quotient.
FitSize(img_w, img_h, width, height) ==
    LET Choose(size_1, size_2) == IF size_1[1] > size_2[1] THEN size_2 ELSE size_1
    IN  Choose(IF ~IsNone(width) /\ width[1] # 0 /\ width[1] < img_w
               THEN <<width[1], (width[1] * img_h) \div img_w>>
               ELSE <<img_w, img_h>>,
               IF ~IsNone(height) /\ height[1] # 0 /\ height[1] < img_h
               THEN <<(height[1] * img_w) \div img_h, height[1]>>
               ELSE <<img_w, img_h>>)

\* HtmlImage.__init__: att is the attachment record of the repository; the
\* object keeps it to stand for the remote item behind self.zid
HtmlImage(att) ==
    [zid |-> att.key, title |-> att.title, temp_img_filepath |-> None, remote |-> att]

\* HtmlImage.download_image, with ZoteroGroupReader.get_attachment_file: w is
\* the world (disk, fetches); every call of get_attachment_file is logged in
\* w.fetches
download_image(image, w) ==
    IF ~IsNone(image.temp_img_filepath)
    THEN [exc |-> "none", image |-> image, w |-> w]
    ELSE IF image.remote.fetch_ok
    THEN [exc |-> "none",
          image |-> [image EXCEPT !.temp_img_filepath = Some(image.zid)],
          w |-> [w EXCEPT !.fetches = Append(@, image.zid)]]
    ELSE [exc |-> "IOError", image |-> image,
          w |-> [w EXCEPT !.fetches = Append(@, image.zid)]]

\* HtmlImage.create_image_file; pil_fail is the set of paths PIL cannot save
create_image_file(image, w, pil_fail, img_path_filename, width, height) ==
    LET Save(d) ==
            IF d.exc # "none" THEN d
            ELSE IF ~image.remote.is_image THEN [d EXCEPT !.exc = "IOError"]
            ELSE IF img_path_filename \in pil_fail THEN d
            ELSE [d EXCEPT !.w.disk =
                     {f \in @ : f.name # img_path_filename}
                     \cup {[name |-> img_path_filename, zid |-> image.zid,
                            size |-> FitSize(image.remote.size[1], image.remote.size[2],
                                             width, height)]}]
    IN  Save(download_image(image, w))

----------------------------------------------------------------------------
(* Items from Zotero: Item, ResearchProject, ConferencePaper, JournalPaper  *)

\* s[-4:]
Last4(s) == IF Len(s) <= 4 THEN s ELSE SubSeq(s, Len(s) - 3, Len(s))

\* s[:-4]
DropLast4(s) == IF Len(s) <= 4 THEN <<>> ELSE SubSeq(s, 1, Len(s) - 4)

\* the keys that Item.__init__ and set_authors read from data
ItemFields == {"title", "date", "pages", "abstractNote", "creators"}

ResearchProjectFields == {"place", "institution", "reportType", "rights", "reportNumber"}

ConferencePaperFields == {"proceedingsTitle"}

JournalPaperFields == {"publicationTitle", "volume", "issue"}

NoItem == [uid |-> <<>>, title |-> "", date |-> <<>>, sort_key |-> <<>>, year |-> None,
           class |-> ""]

\* Item.__init__: data is a record of the repository; data.fields are the
\* keys it has
Item(uid, data) ==
    IF ~(ItemFields \subseteq data.fields) THEN [exc |-> "KeyError", obj |-> NoItem]
    ELSE [exc |-> "none",
          obj |-> [uid |-> uid, title |-> data.title, date |-> Last4(data.date),
                   sort_key |-> <<>>, year |-> None, class |-> "Item"]]

\* ResearchProject.__init__
ResearchProject(uid, data) ==
    LET Sub(i) ==
            IF i.exc # "none" THEN i
            ELSE IF ~(ResearchProjectFields \subseteq data.fields)
            THEN [exc |-> "KeyError", obj |-> NoItem]
            ELSE [i EXCEPT !.obj.class = "ResearchProject"]
    IN  Sub(Item(uid, data))

\* ConferencePaper.__init__: self.year = self.date[:-4]
ConferencePaper(uid, data) ==
    LET Sub(i) ==
            IF i.exc # "none" THEN i
            ELSE IF ~(ConferencePaperFields \subseteq data.fields)
            THEN [exc |-> "KeyError", obj |-> NoItem]
            ELSE [i EXCEPT !.obj.class = "ConferencePaper",
                           !.obj.year = Some(DropLast4(i.obj.date))]
    IN  Sub(Item(uid, data))

\* JournalPaper.__init__: self.year = self.date[:-4]
JournalPaper(uid, data) ==
    LET Sub(i) ==
            IF i.exc # "none" THEN i
            ELSE IF ~(JournalPaperFields \subseteq data.fields)
            THEN [exc |-> "KeyError", obj |-> NoItem]
            ELSE [i EXCEPT !.obj.class = "JournalPaper",
                           !.obj.year = Some(DropLast4(i.obj.date))]
    IN  Sub(Item(uid, data))

\* get_list_item of the three classes: the list item shows the title and,
\* for the papers, "(" + self.year + ")"
get_list_item(obj) ==
    [tag |-> "li", uid |-> obj.uid, title |-> obj.title, py |-> obj.year]

----------------------------------------------------------------------------
(* HtmlContent *)

HeadPrefix == <<"h", "e", "a", "d", "_">>

FileNames(d) == {f.name : f \in d}

\* HtmlContent.__init__: note is a record of the repository
HtmlContent(note) ==
    [zid |-> note.key, ztags |-> note.tags, html |-> note.note,
     images |-> {}, missing_images |-> <<>>]

\* the loop of lines 258-260 from element k on
RECURSIVE replace_imgs(_, _, _, _)
replace_imgs(html, k, missing_images, names) ==
    LET Step(r) ==
            IF r.exc # "none"
            THEN [exc |-> r.exc, html |-> html, missing_images |-> r.missing_images]
            ELSE replace_imgs([html EXCEPT ![k] = r.img], k + 1,
                              r.missing_images, names)
    IN  IF k > Len(html)
        THEN [exc |-> "none", html |-> html, missing_images |-> missing_images]
        ELSE IF html[k].tag # "img"
        THEN replace_imgs(html, k + 1, missing_images, names)
        ELSE Step(replace_img(html[k], missing_images, names))

\* the number of headings among the first k elements
RECURSIVE HeadingsBefore(_, _)
HeadingsBefore(html, k) ==
    IF k = 0 THEN 0
    ELSE HeadingsBefore(html, k - 1) + (IF html[k].tag = "h" THEN 1 ELSE 0)

\* an indexer that counts every element, not only the headings
index_headings_all(html) ==
    [k \in 1..Len(html) |->
        IF html[k].tag = "h"
        THEN [html[k] EXCEPT !.id = Some(HeadPrefix \o Str(k - 1))]
        ELSE html[k]]

\* an indexer that gives an id to the first heading only
index_headings_first(html) ==
    [k \in 1..Len(html) |->
        IF html[k].tag = "h" /\ HeadingsBefore(html, k - 1) = 0
        THEN [html[k] EXCEPT !.id = Some(HeadPrefix \o <<"0">>)]
        ELSE html[k]]

\* the loop of lines 264-266: enumerate(find_all(h1..h6)) in document order
index_headings(html) ==
    [k \in 1..Len(html) |->
        IF html[k].tag = "h"
        THEN [html[k] EXCEPT !.id = Some(HeadPrefix \o Str(HeadingsBefore(html, k - 1)))]
        ELSE html[k]]

\* the order of Python 2 on strings of digits: s < t
RECURSIVE StrLess(_, _)
StrLess(s, t) ==
    IF t = <<>> THEN FALSE
    ELSE IF s = <<>> THEN TRUE
    ELSE IF s[1] # t[1] THEN DigitVal(s[1]) < DigitVal(t[1])
    ELSE StrLess(Tail(s), Tail(t))

\* line 464: objects.sort(key=lambda paper: obj.sort_key, reverse=True).  The
\* lambda reads obj, the variable of the loop of lines 460-463, which is the
\* last object; the sort is stable, also with reverse=True.
RECURSIVE SortObjects(_, _)
SortObjects(objects, n) ==
    LET key(paper) == objects[Len(objects)].sort_key
        Insert(sorted, t) ==
            LET p == Cardinality({i \in 1..(n - 1) : ~StrLess(key(sorted[i]), key(t))})
            IN  SubSeq(sorted, 1, p) \o <<t>> \o SubSeq(sorted, p + 1, n - 1)
    IN  IF n = 0 THEN <<>>
        ELSE Insert(SortObjects(objects, n - 1), objects[n])

\* the keys of mapping, lines 454-458
Styles == {"conference_paper", "journal_paper", "research_project"}

\* mapping[style](str(i), item)
MappedClass(style, uid, data) ==
    CASE style = "conference_paper" -> ConferencePaper(uid, data)
      [] style = "journal_paper" -> JournalPaper(uid, data)
      [] style = "research_project" -> ResearchProject(uid, data)

\* the loop of lines 460-463 from item k on
RECURSIVE objects_loop(_, _, _, _)
objects_loop(items, style, k, objects) ==
    LET Step(o) ==
            IF o.exc # "none" THEN [exc |-> o.exc, objects |-> objects]
            ELSE objects_loop(items, style, k + 1, Append(objects, o.obj))
    IN  IF k > Len(items) THEN [exc |-> "none", objects |-> objects]
        ELSE IF style \notin Styles THEN [exc |-> "KeyError", objects |-> objects]
        ELSE Step(MappedClass(style, Str(k - 1), items[k]))

\* HtmlContent.create_pre_replacement: the ul tag and its list items
create_pre_replacement(items, style) ==
    LET List(objects) ==
            [k \in 1..Len(objects) |-> get_list_item(objects[k])]
        Soup(r) ==
            IF r.exc # "none" THEN [exc |-> r.exc, contents |-> <<>>]
            ELSE [exc |-> "none",
                  contents |-> List(SortObjects(r.objects, Len(r.objects)))]
    IN  Soup(objects_loop(items, style, 1, <<>>))

\* ZoteroGroupReader.initialize_conn_group_name: zot is the repository that
\* directives read; line 742 adds a tuple to a string
initialize_conn_group_name(zot, w, group_name) ==
    LET Asked(w1) ==
            IF ~zot.groups.ok THEN [exc |-> "ZoteroError", w |-> w1, info |-> <<>>]
            ELSE IF group_name \notin zot.groups.names
            THEN [exc |-> "TypeError", w |-> w1, info |-> <<>>]
            ELSE [exc |-> "none", w |-> w1,
                  info |-> <<"Creating connection with zotero database using user id.",
                             "Creating connection with zotero database using group id.">>]
    IN  Asked([w EXCEPT !.queries = Append(@, [op |-> "groups", arg |-> group_name])])

\* ZoteroGroupReader.get_coll_items_by_name, with get_coll_id and
\* get_coll_items_by_id
get_coll_items_by_name(zot, w, coll_name) ==
    LET Items(w2) ==
            IF ~zot.items.ok THEN [exc |-> "ZoteroError", w |-> w2, items |-> <<>>]
            ELSE [exc |-> "none", w |-> w2, items |-> zot.items.items]
        Colls(w1) ==
            IF ~zot.colls.ok THEN [exc |-> "ZoteroError", w |-> w1, items |-> <<>>]
            ELSE IF coll_name \notin zot.colls.names
            THEN [exc |-> "Exception", w |-> w1, items |-> <<>>]
            ELSE Items([w1 EXCEPT !.queries =
                           Append(@, [op |-> "collection_items", arg |-> coll_name])])
    IN  Colls([w EXCEPT !.queries = Append(@, [op |-> "collections", arg |-> coll_name])])

\* HtmlContent.replace_pre: pre is a pre element; pre.string[1] is what
\* eval(soup_pre.string) does: it raises, or gives a dict (value: the keys
\* it has), or gives another object
replace_pre(pre, w, zot) ==
    LET d == pre.string[1]
        head == <<"Replacing the pre tag.">>
        Replace(g, q, r) ==
            IF r.exc # "none"
            THEN [exc |-> r.exc, elem |-> pre, w |-> q.w, info |-> <<>>]
            ELSE [exc |-> "none",
                  elem |-> [pre EXCEPT !.tag = "ul", !.string = None,
                                       !.contents = r.contents],
                  w |-> q.w, info |-> head \o g.info]
        Query(g, q) ==
            IF q.exc # "none"
            THEN [exc |-> "none", elem |-> pre, w |-> q.w,
                  info |-> head \o g.info
                           \o <<"ERROR: Something went getting items from collection.">>]
            ELSE Replace(g, q, create_pre_replacement(q.items, d.value.style[1]))
        Group(g) ==
            IF g.exc # "none"
            THEN [exc |-> g.exc, elem |-> pre, w |-> g.w, info |-> <<>>]
            ELSE Query(g, get_coll_items_by_name(zot, g.w, d.value.coll[1]))
    IN  IF d.eval = "raises"
        THEN [exc |-> "none", elem |-> pre, w |-> w,
              info |-> head
                       \o <<"ERROR: could not evaluate the contents of the pre tag.">>]
        ELSE IF d.eval # "dict"
        THEN [exc |-> "TypeError", elem |-> pre, w |-> w, info |-> <<>>]
        ELSE IF \/ IsNone(d.value.group) \/ IsNone(d.value.coll)
                \/ IsNone(d.value.item_type) \/ IsNone(d.value.style)
        THEN [exc |-> "KeyError", elem |-> pre, w |-> w, info |-> <<>>]
        ELSE Group(initialize_conn_group_name(zot, w, d.value.group[1]))

\* the loop of lines 261-263 from element k on
RECURSIVE replace_pres(_, _, _, _)
replace_pres(html, k, w, zot) ==
    LET Log(msgs, rest) == [rest EXCEPT !.info = msgs \o @]
        Step(r) ==
            IF r.exc # "none"
            THEN [exc |-> r.exc, html |-> html, w |-> r.w, info |-> <<>>]
            ELSE Log(r.info \o <<"Found pre tag.">>,
                     replace_pres([html EXCEPT ![k] = r.elem], k + 1, r.w, zot))
    IN  IF k > Len(html) THEN [exc |-> "none", html |-> html, w |-> w, info |-> <<>>]
        ELSE IF html[k].tag # "pre" THEN replace_pres(html, k + 1, w, zot)
        ELSE Step(replace_pre(html[k], w, zot))

\* n times the message msg
Times(n, msg) == [i \in 1..n |-> msg]

\* a process_html_tags that numbers the headings before it turns to the pre
\* tags
process_html_tags_heads_first(hc, w, zot) ==
    LET Count(html, tag) == Cardinality({k \in 1..Len(html) : html[k].tag = tag})
        Pres(r, p) ==
            IF p.exc # "none"
            THEN [exc |-> p.exc, hc |-> [hc EXCEPT !.missing_images = r.missing_images],
                  w |-> p.w, info |-> <<>>]
            ELSE [exc |-> "none",
                  hc |-> [hc EXCEPT !.missing_images = r.missing_images,
                                    !.html = p.html],
                  w |-> p.w,
                  info |-> <<"Looking for img,  pre, and h? tags.">>
                           \o Times(Count(hc.html, "img"), "Found img tag.")
                           \o Times(Count(hc.html, "h"), "Found h? tag.")
                           \o p.info]
        Heads(r) ==
            IF r.exc # "none"
            THEN [exc |-> r.exc, hc |-> [hc EXCEPT !.missing_images = r.missing_images],
                  w |-> w, info |-> <<>>]
            ELSE Pres(r, replace_pres(index_headings(r.html), 1, w, zot))
    IN  Heads(replace_imgs(hc.html, 1, hc.missing_images, FileNames(w.disk)))

\* HtmlContent.process_html_tags: the img tags, then the pre tags, then the
\* headings
process_html_tags(hc, w, zot) ==
    LET Count(html, tag) == Cardinality({k \in 1..Len(html) : html[k].tag = tag})
        Heads(r, p) ==
            IF p.exc # "none"
            THEN [exc |-> p.exc, hc |-> [hc EXCEPT !.missing_images = r.missing_images],
                  w |-> p.w, info |-> <<>>]
            ELSE [exc |-> "none",
                  hc |-> [hc EXCEPT !.missing_images = r.missing_images,
                                    !.html = index_headings(p.html)],
                  w |-> p.w,
                  info |-> <<"Looking for img,  pre, and h? tags.">>
                           \o Times(Count(hc.html, "img"), "Found img tag.")
                           \o p.info
                           \o Times(Count(p.html, "h"), "Found h? tag.")]
        Pres(r) ==
            IF r.exc # "none"
            THEN [exc |-> r.exc, hc |-> [hc EXCEPT !.missing_images = r.missing_images],
                  w |-> w, info |-> <<>>]
            ELSE Heads(r, replace_pres(r.html, 1, w, zot))
    IN  Pres(replace_imgs(hc.html, 1, hc.missing_images, FileNames(w.disk)))

\* a loop body that binds `image` (line 344) before it reads image.title
attachment_loop_body_bound(images, attachment) ==
    [exc |-> "none",
     images |-> {i \in images : i.title # attachment.title} \cup {HtmlImage(attachment)}]

\* the body of the loop of lines 342-345: line 343 reads the local `image`
\* before line 344 binds it
attachment_loop_body(images, attachment) ==
    [exc |-> "UnboundLocalError", images |-> images]

RECURSIVE attachment_loop(_, _, _)
attachment_loop(images, attachments, k) ==
    LET Step(b) ==
            IF b.exc # "none" THEN b
            ELSE attachment_loop(b.images, attachments, k + 1)
    IN  IF k > Len(attachments) THEN [exc |-> "none", images |-> images]
        ELSE Step(attachment_loop_body(images, attachments[k]))

\* HtmlContent.get_attachments_from_zotero: atts is the repository's answer
\* to the attachment query of the tab's collection
get_attachments_from_zotero(hc, atts) ==
    LET Return(r) ==
            [exc |-> r.exc, hc |-> [hc EXCEPT !.images = r.images],
             info |-> IF atts.items = <<>>
                      THEN <<"Getting image attachments from zotero.">>
                      ELSE <<"Found attachment">>]
    IN  IF ~atts.ok
        THEN [exc |-> "none", hc |-> hc,
              info |-> <<"ERROR: something went wrong when getting image attachments.">>]
        ELSE Return(attachment_loop(hc.images, atts.items, 1))

\* the loop of lines 366-368 from detail k on
RECURSIVE create_image_files(_, _, _, _, _)
create_image_files(image, w, pil_fail, image_details, k) ==
    LET Step(c) ==
            IF c.exc # "none" THEN c
            ELSE create_image_files(c.image, c.w, pil_fail, image_details, k + 1)
    IN  IF k > Len(image_details) THEN [exc |-> "none", image |-> image, w |-> w]
        ELSE Step(create_image_file(image, w, pil_fail, image_details[k].loc,
                                    image_details[k].width, image_details[k].height))

\* the loop of lines 360-370 from missing image k on
RECURSIVE missing_images_loop(_, _, _, _, _)
missing_images_loop(images, w, pil_fail, missing_images, k) ==
    LET Log(msgs, rest) == [rest EXCEPT !.info = msgs \o @]
        \* lines 366-368, then the next missing image
        Files(image, c) ==
            IF c.exc # "none"
            THEN [exc |-> c.exc, images |-> (images \ {image}) \cup {c.image},
                  w |-> c.w, info |-> <<>>]
            ELSE Log(<<"Getting missing image">>,
                     missing_images_loop((images \ {image}) \cup {c.image}, c.w,
                                         pil_fail, missing_images, k + 1))
        \* line 365
        Download(image, d) ==
            IF d.exc # "none"
            THEN [exc |-> d.exc, images |-> images, w |-> d.w, info |-> <<>>]
            ELSE Files(image, create_image_files(d.image, d.w, pil_fail,
                                                 missing_images[k].details, 1))
        Found(image) == Download(image, download_image(image, w))
    IN  IF k > Len(missing_images)
        THEN [exc |-> "none", images |-> images, w |-> w, info |-> <<>>]
        ELSE IF \E i \in images : i.title = missing_images[k].title
        THEN Found(CHOOSE i \in images : i.title = missing_images[k].title)
        ELSE Log(<<"Getting missing image", "Could not find image: ">>,
                 missing_images_loop(images, w, pil_fail, missing_images, k + 1))

\* HtmlContent.get_images_from_zotero
get_images_from_zotero(hc, w, pil_fail) ==
    LET Return(r) ==
            [exc |-> r.exc, hc |-> [hc EXCEPT !.images = r.images], w |-> r.w,
             info |-> r.info]
    IN  IF hc.missing_images = <<>>
        THEN [exc |-> "none", hc |-> hc, w |-> w,
              info |-> <<"No missing images were found.">>]
        ELSE Return(missing_images_loop(hc.images, w, pil_fail, hc.missing_images, 1))

\* HtmlContent.initialize_data.  stage is the last call that returned.
HtmlContent_initialize_data(hc, w, atts, pil_fail, zot) ==
    LET Images(p, a, g) ==
            [exc |-> g.exc, hc |-> g.hc, w |-> g.w,
             info |-> IF g.exc # "none" THEN <<>>
                      ELSE <<"Initializing data for html content.">>
                           \o p.info \o a.info \o g.info,
             stage |-> IF g.exc # "none" THEN "get_attachments_from_zotero"
                       ELSE "get_images_from_zotero"]
        Attachments(p, a) ==
            IF a.exc # "none"
            THEN [exc |-> a.exc, hc |-> a.hc, w |-> p.w, info |-> <<>>,
                  stage |-> "process_html_tags"]
            ELSE Images(p, a, get_images_from_zotero(a.hc, p.w, pil_fail))
        Tags(p) ==
            IF p.exc # "none"
            THEN [exc |-> p.exc, hc |-> p.hc, w |-> p.w, info |-> <<>>, stage |-> "init"]
            ELSE Attachments(p, get_attachments_from_zotero(p.hc, atts))
    IN  Tags(process_html_tags(hc, w, zot))

\* HtmlContent.make_toc: one entry per heading.  The string of a heading
\* without text is None, and a_tag.string = None raises TypeError in
\* BeautifulSoup, whose setter calls new_string.__class__(new_string);
\* heading['id'] raises KeyError for a heading without id.
make_toc(hc) ==
    LET Entries(hs) ==
            IF \E k \in 1..Len(hs) : hs[k].text = <<>> \/ IsNone(hs[k].id)
            THEN LET k == CHOOSE j \in 1..Len(hs) :
                              /\ hs[j].text = <<>> \/ IsNone(hs[j].id)
                              /\ \A m \in 1..(j - 1) : hs[m].text # <<>> /\ ~IsNone(hs[m].id)
                 IN  [exc |-> IF hs[k].text = <<>> THEN "TypeError" ELSE "KeyError",
                      toc |-> <<>>]
            ELSE [exc |-> "none",
                  toc |-> [k \in 1..Len(hs) |->
                              [class |-> hs[k].level, string |-> hs[k].text,
                               href |-> <<"#">> \o hs[k].id[1]]]]
    IN  Entries(SelectSeq(hc.html, LAMBDA e : e.tag = "h"))

----------------------------------------------------------------------------
(* WebPageTab *)

MainTextTag == "main-text"

NoTab == [coll_id |-> "", sort_key |-> None, name |-> <<>>, html_id |-> <<>>,
          html_content |-> <<>>]

\* WebPageTab.__init__: data is a sub-collection record of the repository
WebPageTab(data) ==
    LET Parts(name_parts) ==
            IF Len(name_parts) # 2 THEN [exc |-> "AssertionError", tab |-> NoTab]
            ELSE IF ~IntOk(name_parts[1]) THEN [exc |-> "ValueError", tab |-> NoTab]
            ELSE [exc |-> "none",
                  tab |-> [coll_id |-> data.collectionKey,
                           sort_key |-> Some(IntVal(name_parts[1])),
                           name |-> name_parts[2],
                           html_id |-> HtmlId(name_parts[2]),
                           html_content |-> <<>>]]
    IN  Parts(Split(data.name, "_"))

\* the loop of lines 169-177 from note k on; an exception of a note is caught
\* and the note is not appended
RECURSIVE notes_loop(_, _, _, _, _, _, _)
notes_loop(html_content, w, notes, atts, pil_fail, zot, k) ==
    LET Log(msgs, rest) == [rest EXCEPT !.info = msgs \o @]
        Step(r) ==
            IF r.exc = "none"
            THEN Log(<<"Creating HTML content from note.">> \o r.info,
                     notes_loop(Append(html_content, r.hc), r.w, notes, atts,
                                pil_fail, zot, k + 1))
            ELSE Log(<<"Creating HTML content from note.",
                       "Error: Failed to create HTML content from note.">>,
                     notes_loop(html_content, r.w, notes, atts, pil_fail, zot,
                                k + 1))
    IN  IF k > Len(notes) THEN [html_content |-> html_content, w |-> w, info |-> <<>>]
        ELSE Step(HtmlContent_initialize_data(HtmlContent(notes[k]), w, atts, pil_fail,
                                              zot))

\* WebPageTab.initialize_data: returns None (returns_none) when the query for
\* the notes fails, line 167
WebPageTab_initialize_data(tab, w, notes, atts, pil_fail, zot) ==
    LET Return(r) ==
            [returns_none |-> FALSE,
             tab |-> [tab EXCEPT !.html_content = r.html_content],
             w |-> r.w,
             info |-> <<"Initializing data for tab">> \o r.info]
    IN  IF ~notes.ok
        THEN [returns_none |-> TRUE, tab |-> tab, w |-> w, info |-> <<>>]
        ELSE Return(notes_loop(tab.html_content, w, notes.items, atts, pil_fail, zot, 1))

\* WebPageTab.get_tab_button
get_tab_button(tab) == [href |-> <<"#">> \o tab.html_id, string |-> tab.name]

\* the loop of lines 199-201 from page k on
RECURSIVE main_text_loop(_, _, _)
main_text_loop(html_content, k, main_text) ==
    IF k > Len(html_content) THEN main_text
    ELSE main_text_loop(html_content, k + 1,
                        IF MainTextTag \in html_content[k].ztags THEN Some(k)
                        ELSE main_text)

\* a selection that falls back to the first page when no page carries the tag
select_main_text_first(html_content) ==
    IF Len(html_content) = 0 THEN None
    ELSE main_text_loop(html_content, 1, Some(1))

\* lines 195-201 of get_tab_content: the index in html_content of main_text
select_main_text(html_content) ==
    IF Len(html_content) = 1 THEN Some(1)
    ELSE main_text_loop(html_content, 1, None)

UnderConstruction == "Under construction..."

\* WebPageTab.get_tab_content: the three arguments of template.format
get_tab_content(tab) ==
    LET Format(hc, toc) ==
            [exc |-> toc.exc, id |-> tab.html_id, placeholder |-> "",
             zid |-> Some(hc.zid), html |-> hc.html, toc |-> toc.toc]
        Content(main_text) ==
            IF ~IsNone(main_text)
            THEN Format(tab.html_content[main_text[1]],
                        make_toc(tab.html_content[main_text[1]]))
            ELSE [exc |-> "none", id |-> tab.html_id, placeholder |-> UnderConstruction,
                  zid |-> None, html |-> <<>>, toc |-> <<>>]
    IN  Content(select_main_text(tab.html_content))

----------------------------------------------------------------------------
(* TabbedWebsite *)

\* Python 2 order of sort keys: None is smaller than every int
KeyLess(a, b) ==
    IF IsNone(a) THEN ~IsNone(b)
    ELSE ~IsNone(b) /\ a[1] < b[1]

\* a sort that puts a tab before the tabs of equal key that came before it
RECURSIVE SortTabs_unstable(_)
SortTabs_unstable(tabs) ==
    LET Insert(sorted, t, n) ==
            LET p == Cardinality({i \in 1..(n - 1) :
                                     KeyLess(sorted[i].sort_key, t.sort_key)})
            IN  SubSeq(sorted, 1, p) \o <<t>> \o SubSeq(sorted, p + 1, n - 1)
    IN  IF tabs = <<>> THEN <<>>
        ELSE Insert(SortTabs_unstable(SubSeq(tabs, 1, Len(tabs) - 1)),
                    tabs[Len(tabs)], Len(tabs))

\* list.sort(key=lambda item: item.sort_key): a stable sort
RECURSIVE SortTabs(_)
SortTabs(tabs) ==
    LET Insert(sorted, t, n) ==
            LET p == Cardinality({i \in 1..(n - 1) :
                                     ~KeyLess(t.sort_key, sorted[i].sort_key)})
            IN  SubSeq(sorted, 1, p) \o <<t>> \o SubSeq(sorted, p + 1, n - 1)
    IN  IF tabs = <<>> THEN <<>>
        ELSE Insert(SortTabs(SubSeq(tabs, 1, Len(tabs) - 1)), tabs[Len(tabs)], Len(tabs))

\* the loop of lines 87-90 from record k on
RECURSIVE tabs_loop(_, _, _, _)
tabs_loop(tabs, w, e, k) ==
    LET Log(msgs, rest) == [rest EXCEPT !.info = msgs \o @]
        Data(r) ==
            IF r.returns_none
            THEN [exc |-> "TypeError", tabs |-> tabs, w |-> r.w, info |-> <<>>]
            ELSE Log(r.info, tabs_loop(Append(tabs, r.tab), r.w, e, k + 1))
        Tab(data, c) ==
            IF c.exc # "none"
            THEN [exc |-> c.exc, tabs |-> tabs, w |-> w, info |-> <<>>]
            ELSE Data(WebPageTab_initialize_data(c.tab, w,
                          e.notes[data.collectionKey], e.atts[data.collectionKey],
                          e.pil_fail, e.zot))
        Record(data) == Tab(data, WebPageTab(data))
    IN  IF k > Len(e.subs.items)
        THEN [exc |-> "none", tabs |-> tabs, w |-> w, info |-> <<>>]
        ELSE Record(e.subs.items[k])

\* TabbedWebsite.initialize_data
TabbedWebsite_initialize_data(tabs, w, e) ==
    LET Sort(r) == IF r.exc # "none" THEN r ELSE [r EXCEPT !.tabs = SortTabs(r.tabs)]
    IN  IF ~e.subs.ok
        THEN [exc |-> "none", tabs |-> tabs, w |-> w,
              info |-> <<"ERROR: could not get sub-collections">>]
        ELSE Sort(tabs_loop(tabs, w, e, 1))

\* TabbedWebsite._get_buttons_html
get_buttons_html(tabs) == [k \in 1..Len(tabs) |-> get_tab_button(tabs[k])]

\* TabbedWebsite._get_content_html
get_content_html(tabs) == [k \in 1..Len(tabs) |-> get_tab_content(tabs[k])]

\* TabbedWebsite._get_html
get_html(tabs) ==
    LET Substitute(content) ==
            [exc |-> IF \E k \in 1..Len(content) : content[k].exc # "none"
                     THEN content[CHOOSE k \in 1..Len(content) :
                                     /\ content[k].exc # "none"
                                     /\ \A j \in 1..(k - 1) : content[j].exc = "none"].exc
                     ELSE "none",
             tabs_buttons |-> get_buttons_html(tabs),
             tabs_content |-> content]
    IN  Substitute(get_content_html(tabs))

----------------------------------------------------------------------------
(* website_generator.TabbedWebsite *)

\* TabbedWebsite.__init__ of website_generator.py
WG_TabbedWebsite ==
    [template_str |-> None, head |-> None, tabs |-> <<>>, zot_images |-> None]

----------------------------------------------------------------------------
(* The program: test_tabs builds a TabbedWebsite, calls initialize_data and *)
(* then create_html_file; the program can be run again on the same image   *)
(* directory.                                                              *)

MaxRenders == 2

MaxRuns == 2

\* test_tabs line 839: twp.initialize_data(...)
InitializeData ==
    /\ st = "new"
    /\ \E r \in {TabbedWebsite_initialize_data(twp_tabs,
                        [disk |-> disk, fetches |-> fetches, queries |-> queries], env)} :
           /\ twp_tabs' = r.tabs
           /\ disk' = r.w.disk
           /\ fetches' = r.w.fetches
           /\ queries' = r.w.queries
           /\ st' = IF r.exc = "none" THEN "initialized" ELSE "raised"
           /\ info' = IF r.exc = "none" THEN r.info ELSE <<>>
    /\ UNCHANGED <<env, wg, pages, hist, call, ret>>

\* test_tabs line 840: twp.create_html_file(...); an exception of _get_html
\* is caught and nothing is written
CreateHtmlFile ==
    /\ st = "initialized"
    /\ Len(pages) < MaxRenders
    /\ \E h \in {get_html(twp_tabs)} :
           pages' = IF h.exc = "none" THEN Append(pages, h) ELSE pages
    /\ UNCHANGED <<env, disk, twp_tabs, st, info, fetches, queries, wg, hist,
                 call, ret>>

\* the program is started again: a new TabbedWebsite, the same repository,
\* the image directory as the last run left it
NewRun ==
    /\ st \in {"initialized", "raised"}
    /\ Len(hist) + 1 < MaxRuns
    /\ hist' = Append(hist, [disk |-> disk, fetches |-> fetches, st |-> st])
    /\ twp_tabs' = <<>>
    /\ st' = "new"
    /\ info' = <<>>
    /\ fetches' = <<>>
    /\ queries' = <<>>
    /\ pages' = <<>>
    /\ UNCHANGED <<env, disk, wg, call, ret>>

Next == InitializeData \/ CreateHtmlFile \/ NewRun

\* the state of a program that has just constructed TabbedWebsite
InitProgram ==
    /\ twp_tabs = <<>>
    /\ st = "new"
    /\ info = <<>>
    /\ fetches = <<>>
    /\ queries = <<>>
    /\ wg = WG_TabbedWebsite
    /\ pages = <<>>
    /\ hist = <<>>
    /\ call = [op |-> "test_tabs"]
    /\ ret = None

----------------------------------------------------------------------------
(* Repository contents *)

Img(src) == [tag |-> "img", src |-> src, href |-> None, level |-> 0, id |-> None,
             text |-> <<>>, string |-> None, contents |-> <<>>]

H(level, text) == [tag |-> "h", src |-> None, href |-> None, level |-> level,
                   id |-> None, text |-> text, string |-> None, contents |-> <<>>]

P == [tag |-> "p", src |-> None, href |-> None, level |-> 0, id |-> None, text |-> <<>>,
      string |-> None, contents |-> <<>>]

\* a pre tag; directive is what the evaluation of its text does
Pre(directive) ==
    [tag |-> "pre", src |-> None, href |-> None, level |-> 0, id |-> None, text |-> <<>>,
     string |-> Some(directive), contents |-> <<>>]

\* a repository in which directives find no group
NoZotero == [groups |-> [ok |-> TRUE, names |-> {}], colls |-> [ok |-> TRUE, names |-> {}],
             items |-> [ok |-> TRUE, items |-> <<>>]]

Note(key, tags, html) == [key |-> key, tags |-> tags, note |-> html]

Answer(items) == [ok |-> TRUE, items |-> items]

Failure == [ok |-> FALSE, items |-> <<>>]

CollKeys == <<"c1", "c2", "c3", "c4", "c5">>

\* all sequences over S of length at most n
SeqUpTo(S, n) == UNION {[1..k -> S] : k \in 0..n}

----------------------------------------------------------------------------
(* Spec: pages whose tabs differ in their names and in the repository's    *)
(* answer to the query for their notes                                     *)

MaxTabs == 3

TabNames == {<<"1", "_", "H">>, <<"2", "_", "A">>, <<"1", "_", "a">>,
             <<"1", "0", "_", "b">>, <<"x", "_", "A">>, <<"1", "_", "A", "_", "b">>}

PlainNotes(c) == Answer(<<Note(c, {}, <<P>>)>>)

Init ==
    /\ InitProgram
    /\ disk = {}
    /\ \E names \in SeqUpTo(TabNames, MaxTabs), failing \in SUBSET (1..MaxTabs),
          subs_ok \in BOOLEAN :
          /\ \A k \in failing : k <= Len(names)
          /\ subs_ok \/ (names = <<>> /\ failing = {})
          /\ env = [subs |-> IF subs_ok
                             THEN Answer([k \in 1..Len(names) |->
                                     [collectionKey |-> CollKeys[k], name |-> names[k]]])
                             ELSE Failure,
                    notes |-> [c \in {CollKeys[k] : k \in 1..Len(names)} |->
                                 IF \E k \in failing : CollKeys[k] = c
                                 THEN Failure ELSE PlainNotes(c)],
                    atts |-> [c \in {CollKeys[k] : k \in 1..Len(names)} |-> Answer(<<>>)],
                    pil_fail |-> {}, zot |-> NoZotero]

Spec == Init /\ [][Next]_vars

----------------------------------------------------------------------------
(* SpecSelect: one tab whose notes differ in number and in their tags      *)

MaxNotes == 3

NoteKeys == <<"n1", "n2", "n3", "n4", "n5">>

TagSets == {{}, {MainTextTag}, {"other"}, {MainTextTag, "other"}}

Attachment(key, title, size) ==
    [key |-> key, title |-> title, size |-> size, fetch_ok |-> TRUE, is_image |-> TRUE]

PhotoJpg == <<"p", ".", "j">>

OneTab(name, notes, atts, pil_fail) ==
    [subs |-> Answer(<<[collectionKey |-> CollKeys[1], name |-> name]>>),
     notes |-> [c \in {CollKeys[1]} |-> notes],
     atts |-> [c \in {CollKeys[1]} |-> atts],
     pil_fail |-> pil_fail, zot |-> NoZotero]

InitSelect ==
    /\ InitProgram
    /\ disk = {}
    /\ \E tags \in SeqUpTo(TagSets, MaxNotes),
          atts \in {Answer(<<>>), Failure, Answer(<<Attachment("a1", PhotoJpg, <<4, 2>>)>>)} :
          env = OneTab(<<"1", "_", "H">>,
                       Answer([k \in 1..Len(tags) |->
                                  Note(NoteKeys[k], tags[k], <<H(1, <<"t">>), P>>)]),
                       atts, {})

SpecSelect == InitSelect /\ [][Next]_vars

----------------------------------------------------------------------------
(* Tab assembly: claims C1 to C4 *)

\* the position of a tab's record in the repository's answer
InputPos(tab) ==
    CHOOSE k \in 1..Len(env.subs.items) : env.subs.items[k].collectionKey = tab.coll_id

\* C1: after initialize_data has returned, the tab list holds one tab per
\* record of the repository, in non-decreasing order of the sort key, tabs
\* of equal key in input order; the buttons and the content blocks of every
\* page written follow the tab list.
C1_TabOrder ==
    st = "initialized" =>
        /\ env.subs.ok => Len(twp_tabs) = Len(env.subs.items)
        /\ \A i, j \in 1..Len(twp_tabs) :
              i < j =>
                 /\ twp_tabs[i].sort_key[1] <= twp_tabs[j].sort_key[1]
                 /\ twp_tabs[i].sort_key[1] = twp_tabs[j].sort_key[1]
                       => InputPos(twp_tabs[i]) < InputPos(twp_tabs[j])
        /\ \A n \in 1..Len(pages) :
              /\ Len(pages[n].tabs_buttons) = Len(twp_tabs)
              /\ Len(pages[n].tabs_content) = Len(twp_tabs)
              /\ \A k \in 1..Len(twp_tabs) :
                    /\ pages[n].tabs_buttons[k].string = twp_tabs[k].name
                    /\ pages[n].tabs_content[k].id = twp_tabs[k].html_id

\* records "2_A", "1_H", "1_a" were sorted to H, a, A and the page written
C1_Witness ==
    /\ st = "initialized"
    /\ Len(pages) > 0
    /\ Len(twp_tabs) = 3
    /\ env.subs.items[1].name = <<"2", "_", "A">>
    /\ env.subs.items[2].name = <<"1", "_", "H">>
    /\ env.subs.items[3].name = <<"1", "_", "a">>
    /\ pages[1].tabs_buttons[1].string = <<"H">>
    /\ pages[1].tabs_buttons[2].string = <<"a">>
    /\ pages[1].tabs_buttons[3].string = <<"A">>

Parseable(name) ==
    LET parts == Split(name, "_") IN Len(parts) = 2 /\ IntOk(parts[1])

\* C2: (as claimed) when the repository answers every query, initialize_data
\* returns and the tab list holds exactly the tabs whose label parses; a tab
\* with an unparseable label is left out and the others are kept.
C2_BadTabAloneDropped ==
    (/\ st # "new"
     /\ env.subs.ok
     /\ \A c \in DOMAIN env.notes : env.notes[c].ok)
    => /\ st = "initialized"
       /\ {t.coll_id : t \in {twp_tabs[k] : k \in 1..Len(twp_tabs)}}
            = {r.collectionKey : r \in {x \in {env.subs.items[k] : k \in 1..Len(env.subs.items)} :
                                           Parseable(x.name)}}

\* the fragments of tab k that carry the main-text tag, as indices
Tagged(tab) == {i \in 1..Len(tab.html_content) : MainTextTag \in tab.html_content[i].ztags}

Min(S) == CHOOSE x \in S : \A y \in S : x <= y

\* C3: (as claimed) in every page written, a tab with one fragment shows
\* that fragment, and a tab with two or more fragments of which some carry
\* the main-text tag shows the first fragment that carries it.
C3_FirstTaggedIsPrimary ==
    \A n \in 1..Len(pages) : \A k \in 1..Len(twp_tabs) :
        LET tab == twp_tabs[k]
            block == pages[n].tabs_content[k]
        IN  /\ Len(tab.html_content) = 1 => block.zid = Some(tab.html_content[1].zid)
            /\ (Len(tab.html_content) >= 2 /\ Tagged(tab) # {})
                  => block.zid = Some(tab.html_content[Min(Tagged(tab))].zid)

\* C4: (as claimed) in every page written, a tab with two or more fragments
\* none of which carries the main-text tag shows its first fragment, and
\* initialize_data has recorded the fallback.
C4_FallbackToFirst ==
    \A n \in 1..Len(pages) : \A k \in 1..Len(twp_tabs) :
        LET tab == twp_tabs[k]
            block == pages[n].tabs_content[k]
        IN  (Len(tab.html_content) >= 2 /\ Tagged(tab) = {})
               => /\ block.zid = Some(tab.html_content[1].zid)
                  /\ block.placeholder = ""
                  /\ block.html = tab.html_content[1].html
                  /\ \E m \in 1..Len(info) : info[m] = "fallback"

----------------------------------------------------------------------------
(* SpecHead: one tab with one note whose elements differ                   *)

MaxElems == 3

PhotoSrc == <<"p", "_", "w", "3", ".", "j">>

Elems == {H(1, <<"t">>), H(3, <<>>), H(6, <<"u">>), P, Img(Some(PhotoSrc))}

InitHead ==
    /\ InitProgram
    /\ disk = {}
    /\ \E html \in SeqUpTo(Elems, MaxElems), atts \in {Answer(<<>>), Failure} :
          env = OneTab(<<"1", "_", "H">>, Answer(<<Note(NoteKeys[1], {}, html)>>),
                       atts, {})

SpecHead == InitHead /\ [][Next]_vars

\* the fragments of the page
Fragments ==
    UNION {{twp_tabs[k].html_content[i] : i \in 1..Len(twp_tabs[k].html_content)} :
              k \in 1..Len(twp_tabs)}

HeadingsOf(html) == SelectSeq(html, LAMBDA e : e.tag = "h")

\* C5: in every fragment of the page the k-th heading in document order,
\* whatever its level, carries the id "head_" followed by the decimal k-1:
\* the indices start at 0 and grow by one per heading.
C5_HeadingIndex ==
    \A hc \in Fragments :
        \A k \in 1..Len(HeadingsOf(hc.html)) :
            LET id == HeadingsOf(hc.html)[k].id
            IN  /\ ~IsNone(id)
                /\ SubSeq(id[1], 1, Len(HeadPrefix)) = HeadPrefix
                /\ IntOk(SubSeq(id[1], Len(HeadPrefix) + 1, Len(id[1])))
                /\ IntVal(SubSeq(id[1], Len(HeadPrefix) + 1, Len(id[1]))) = k - 1

\* a fragment "p, h3, h1" or the like: a heading that is not the first
\* element, followed by a heading of another level
C5_Witness ==
    \E hc \in Fragments :
        /\ Len(hc.html) = 3
        /\ hc.html[1].tag = "p"
        /\ hc.html[2].tag = "h" /\ hc.html[3].tag = "h"
        /\ hc.html[2].level > hc.html[3].level
        /\ hc.html[2].id = Some(HeadPrefix \o <<"0">>)
        /\ hc.html[3].id = Some(HeadPrefix \o <<"1">>)

----------------------------------------------------------------------------
(* website_generator.HtmlImageTag: the name of the resized image           *)

\* HtmlImageTag.initialize_data: src, width and height are the attributes of
\* the img tag, None or a string
HtmlImageTag_initialize_data(src, width, height) ==
    LET Name(parts) ==
            IF Len(parts) < 2
            THEN [exc |-> "IndexError", original_name |-> src[1], new_name |-> <<>>]
            ELSE [exc |-> "none", original_name |-> src[1],
                  new_name |->
                      parts[1]
                      \o (IF ~IsNone(width) /\ width[1] # <<>>
                          THEN <<"_", "w">> \o width[1] ELSE <<>>)
                      \o (IF ~IsNone(height) /\ height[1] # <<>>
                          THEN <<"_", "h">> \o height[1] ELSE <<>>)
                      \o <<".">> \o parts[2]]
    IN  IF IsNone(src)
        THEN [exc |-> "AttributeError", original_name |-> <<>>, new_name |-> <<>>]
        ELSE Name(Split(src[1], "."))

----------------------------------------------------------------------------
(* SpecCodec: the name written by HtmlImageTag.initialize_data is read back *)
(* by discover_missing_images                                              *)

MaxHint == 12

Hints == {None} \cup {Some(n) : n \in 0..MaxHint} \cup {Some(300), Some(BigBound)}

Bases == {<<"p">>, <<"w", "1">>, <<"h">>, <<>>, <<"p", "h", "o", "t", "o">>,
          <<"a", "_", "b">>, <<"a", "_", "w", "5">>}

Extensions == {<<"j">>, <<"j", "p", "g">>, <<"h", "2">>}

\* the attribute of an img tag that states a size
Attr(hint) == IF IsNone(hint) THEN None ELSE Some(Str(hint[1]))

InitCodec ==
    /\ disk = {} /\ twp_tabs = <<>> /\ st = "call" /\ info = <<>> /\ fetches = <<>>
    /\ queries = <<>> /\ wg = WG_TabbedWebsite
    /\ pages = <<>> /\ hist = <<>> /\ env = [op |-> "none"]
    /\ ret = None
    /\ \E b \in Bases, x \in Extensions, wd \in Hints, ht \in Hints :
          call = [op |-> "encode", title |-> b \o <<".">> \o x, width |-> wd,
                  height |-> ht]

\* encode: the img tag <img src=title width=.. height=..> is initialized
Encode ==
    /\ call.op = "encode"
    /\ ret = None
    /\ ret' = Some([encoded |-> HtmlImageTag_initialize_data(
                                   Some(call.title), Attr(call.width), Attr(call.height)),
                    decoded |-> None])
    /\ UNCHANGED <<env, disk, twp_tabs, st, info, fetches, queries, wg, pages,
                 hist, call>>

\* decode: the encoded name is the src of an img tag whose files are missing
Decode ==
    /\ call.op = "encode"
    /\ ~IsNone(ret)
    /\ IsNone(ret[1].decoded)
    /\ ret[1].encoded.exc = "none"
    /\ ret' = Some([ret[1] EXCEPT !.decoded =
                       Some(discover_missing_images(<<>>, ret[1].encoded.new_name, {}))])
    /\ UNCHANGED <<env, disk, twp_tabs, st, info, fetches, queries, wg, pages,
                 hist, call>>

NextCodec == Encode \/ Decode

SpecCodec == InitCodec /\ [][NextCodec]_vars

\* a canonical title is token0 "." extension: one dot, no underscore, no slash
Canonical(title) ==
    /\ Cardinality({i \in 1..Len(title) : title[i] = "."}) = 1
    /\ \A i \in 1..Len(title) : title[i] \notin {"_", "/"}

\* C6: for a canonical title and optional width and height, decoding the
\* encoded name succeeds and gives back the title, the width and the height.
C6_RoundTrip ==
    (/\ call.op = "encode"
     /\ Canonical(call.title)
     /\ ~IsNone(ret)
     /\ ~IsNone(ret[1].decoded))
    => LET d == ret[1].decoded[1]
       IN  /\ d.exc = "none"
           /\ Len(d.missing_images) = 1
           /\ d.missing_images[1].title = call.title
           /\ d.missing_images[1].details[1].width = call.width
           /\ d.missing_images[1].details[1].height = call.height

\* photo.jpg with width 300 and height 12 went through photo_w300_h12.jpg
C6_Witness ==
    /\ call.op = "encode"
    /\ call.title = <<"p", "h", "o", "t", "o", ".", "j", "p", "g">>
    /\ call.width = Some(300) /\ call.height = Some(12)
    /\ ~IsNone(ret)
    /\ ret[1].encoded.new_name = <<"p", "h", "o", "t", "o", "_", "w", "3", "0", "0",
                                   "_", "h", "1", "2", ".", "j", "p", "g">>
    /\ ~IsNone(ret[1].decoded)
    /\ ret[1].decoded[1].missing_images[1].details[1].width = Some(300)

----------------------------------------------------------------------------
(* SpecFit: create_image_file on an image of some native size               *)

MaxNative == 7

MaxBound == 8

Bounds == {None} \cup {Some(n) : n \in 1..MaxBound}

Target == <<"t", ".", "j">>

InitFit ==
    /\ disk = {} /\ twp_tabs = <<>> /\ st = "call" /\ info = <<>> /\ fetches = <<>>
    /\ queries = <<>> /\ wg = WG_TabbedWebsite
    /\ pages = <<>> /\ hist = <<>> /\ env = [op |-> "none"]
    /\ ret = None
    /\ \E img_w \in 1..MaxNative, img_h \in 1..MaxNative, wd \in Bounds, ht \in Bounds :
          call = [op |-> "create_image_file",
                  image |-> HtmlImage(Attachment("a1", Target, <<img_w, img_h>>)),
                  width |-> wd, height |-> ht]

CreateImageFile ==
    /\ call.op = "create_image_file"
    /\ ret = None
    /\ ret' = Some(create_image_file(call.image, [disk |-> disk, fetches |-> fetches, queries |-> queries],
                                     {}, Target, call.width, call.height))
    /\ UNCHANGED <<env, disk, twp_tabs, st, info, fetches, queries, wg, pages,
                 hist, call>>

NextFit == CreateImageFile

SpecFit == InitFit /\ [][NextFit]_vars

\* C8: with at least one bound set, the file written by create_image_file is
\* no wider than the width bound and no higher than the height bound.
C8_Fit ==
    (/\ call.op = "create_image_file"
     /\ ~IsNone(ret)
     /\ ~(IsNone(call.width) /\ IsNone(call.height)))
    => \A f \in ret[1].w.disk :
          /\ ~IsNone(call.width) => f.size[1] <= call.width[1]
          /\ ~IsNone(call.height) => f.size[2] <= call.height[1]

\* a 7x5 image bounded by 4x4 was written as 4x2: both candidate sizes were
\* computed and the narrower one chosen
C8_Witness ==
    /\ call.op = "create_image_file"
    /\ call.image.remote.size = <<7, 5>>
    /\ call.width = Some(4) /\ call.height = Some(4)
    /\ ~IsNone(ret)
    /\ \E f \in ret[1].w.disk : f.name = Target /\ f.size = <<4, 2>>

----------------------------------------------------------------------------
(* SpecImg: one tab with one note of img tags; some files exist already    *)

MaxImgs == 2

\* <base>[_w<W>][_h<H>].<ext>
NameOf(base, wd, ht, ext) ==
    base
    \o (IF IsNone(wd) THEN <<>> ELSE <<"_", "w">> \o Str(wd[1]))
    \o (IF IsNone(ht) THEN <<>> ELSE <<"_", "h">> \o Str(ht[1]))
    \o <<".">> \o ext

BigNameOf(base, ext) ==
    base \o <<"_", "w", "1", "2", "0", "0", "_", "h", "1", "2", "0", "0", ".">> \o ext

ImgBases == {<<"p">>, <<"p", "h", "o", "t", "o">>}

ImgWidths == {None, Some(3), Some(300)}

ImgHeights == {None, Some(2)}

ImgExts == {<<"j", "p", "g">>}

GoodSrcs ==
    {NameOf(b, wd, ht, x) : b \in {<<"p">>}, wd \in ImgWidths, ht \in ImgHeights, x \in ImgExts}
    \cup {NameOf(<<"p", "h", "o", "t", "o">>, Some(300), None, <<"j", "p", "g">>)}

OddSrcs == {<<"p", "_", "h", "2", "_", "w", "3", ".", "j", "p", "g">>,
            <<"p", "_", "w", "x", ".", "j", "p", "g">>,
            <<"p">>,
            <<"p", "_", "w", "3", "_", "h", "2", "_", "x", ".", "j", "p", "g">>}

ImgTags == {Img(Some(src)) : src \in GoodSrcs \cup OddSrcs} \cup {Img(None)}

File(name) == [name |-> name, zid |-> "old", size |-> <<1, 1>>]

OldFiles == {File(NameOf(<<"p">>, Some(300), None, <<"j", "p", "g">>)),
             File(BigNameOf(<<"p">>, <<"j", "p", "g">>))}

InitImg ==
    /\ InitProgram
    /\ disk \in SUBSET OldFiles
    /\ \E html \in SeqUpTo(ImgTags, MaxImgs),
          atts \in {Answer(<<>>), Failure,
                    Answer(<<Attachment("a1", <<"p", ".", "j", "p", "g">>, <<4, 2>>)>>)} :
          env = OneTab(<<"1", "_", "H">>, Answer(<<Note(NoteKeys[1], {}, html)>>),
                       atts, {})

SpecImg == InitImg /\ [][Next]_vars

\* the note of the repository that a fragment was made from
NoteOf(hc) ==
    CHOOSE n \in UNION {{env.notes[c].items[i] : i \in 1..Len(env.notes[c].items)} :
                           c \in DOMAIN env.notes} : n.key = hc.zid

\* what the resolver is to request for the tag src = <b>[_w<wd>][_h<ht>].<x>
Request(b, wd, ht, x) ==
    [title |-> b \o <<".">> \o x,
     details |-> <<[loc |-> NameOf(b, wd, ht, x), width |-> wd, height |-> ht],
                   [loc |-> BigNameOf(b, x), width |-> Some(1200), height |-> Some(1200)]>>]

\* C7: for every img tag of a fragment whose src is <b>[_w<W>][_h<H>].<x> and
\* whose two files are not in the image directory, the fragment requests the
\* small variant (the file name as written, the decoded bound) and the big
\* variant (<b>_w1200_h1200.<x>, 1200x1200) under the title <b>.<x>, once
\* per tag and nothing else for that name, and the rewritten tag shows
\* img/<name as written> and links to img/<b>_w1200_h1200.<x>.
C7_TwoVariants ==
    \A hc \in Fragments : \A k \in 1..Len(hc.html) :
        \A b \in ImgBases, wd \in ImgWidths, ht \in ImgHeights, x \in ImgExts :
            (/\ NoteOf(hc).note[k].tag = "img"
             /\ NoteOf(hc).note[k].src = Some(NameOf(b, wd, ht, x))
             /\ NameOf(b, wd, ht, x) \notin FileNames(disk)
             /\ BigNameOf(b, x) \notin FileNames(disk))
            => /\ hc.html[k].src = Some(<<"i", "m", "g", "/">> \o NameOf(b, wd, ht, x))
               /\ hc.html[k].href = Some(<<"i", "m", "g", "/">> \o BigNameOf(b, x))
               /\ Cardinality({m \in 1..Len(hc.missing_images) :
                                  hc.missing_images[m] = Request(b, wd, ht, x)})
                    = Cardinality({i \in 1..Len(hc.html) :
                                      NoteOf(hc).note[i].src = Some(NameOf(b, wd, ht, x))})
               /\ \A m \in 1..Len(hc.missing_images) :
                     hc.missing_images[m].details[1].loc = NameOf(b, wd, ht, x)
                        => hc.missing_images[m] = Request(b, wd, ht, x)

\* scenario A: src="photo_w300.jpg" asked for photo_w300.jpg (width 300, no
\* height bound) and photo_w1200_h1200.jpg under the title photo.jpg
C7_Witness ==
    \E hc \in Fragments :
        /\ Len(hc.html) >= 1
        /\ Len(hc.missing_images) >= 1
        /\ NoteOf(hc).note[1].src =
              Some(<<"p", "h", "o", "t", "o", "_", "w", "3", "0", "0", ".", "j", "p", "g">>)
        /\ hc.missing_images[1].title = <<"p", "h", "o", "t", "o", ".", "j", "p", "g">>
        /\ hc.missing_images[1].details[1] =
              [loc |-> <<"p", "h", "o", "t", "o", "_", "w", "3", "0", "0", ".", "j", "p", "g">>,
               width |-> Some(300), height |-> None]
        /\ hc.missing_images[1].details[2].loc =
              <<"p", "h", "o", "t", "o", "_", "w", "1", "2", "0", "0", "_", "h", "1", "2",
                "0", "0", ".", "j", "p", "g">>
        /\ hc.html[1].src = Some(<<"i", "m", "g", "/", "p", "h", "o", "t", "o", "_", "w",
                                   "3", "0", "0", ".", "j", "p", "g">>)

----------------------------------------------------------------------------
(* SpecBuild: pages of one or two tabs whose notes show variants of one    *)
(* attachment; the program is run twice on the same image directory        *)

MaxBuildTabs == 2

MaxBuildNotes == 2

BuildTabNames == <<<<"1", "_", "H">>, <<"2", "_", "A">>, <<"3", "_", "B">>, <<"4", "_", "C">>>>

BuildSrcs == {<<"p", "_", "w", "3", ".", "j">>, <<"p", "_", "h", "2", ".", "j">>}

BuildCatalogs == {Answer(<<>>), Failure, Answer(<<Attachment("a1", PhotoJpg, <<4, 2>>)>>)}

\* the notes of one tab: each note is one img tag
BuildNotes(srcs) ==
    Answer([i \in 1..Len(srcs) |-> Note(NoteKeys[i], {}, <<Img(Some(srcs[i]))>>)])

InitBuild ==
    /\ InitProgram
    /\ disk \in {{}, {File(<<"p", "_", "w", "1", "2", "0", "0", "_", "h", "1", "2", "0",
                            "0", ".", "j">>)}}
    /\ \E n \in 1..MaxBuildTabs :
       \E srcs \in [1..n -> SeqUpTo(BuildSrcs, MaxBuildNotes) \ {<<>>}],
          atts \in [1..n -> BuildCatalogs],
          pil_fail \in {{}, {<<"p", "_", "w", "3", ".", "j">>}} :
          env = [subs |-> Answer([k \in 1..n |->
                            [collectionKey |-> CollKeys[k], name |-> BuildTabNames[k]]]),
                 notes |-> [c \in {CollKeys[k] : k \in 1..n} |->
                              BuildNotes(srcs[CHOOSE k \in 1..n : CollKeys[k] = c])],
                 atts |-> [c \in {CollKeys[k] : k \in 1..n} |->
                              atts[CHOOSE k \in 1..n : CollKeys[k] = c]],
                 pil_fail |-> pil_fail, zot |-> NoZotero]

SpecBuild == InitBuild /\ [][Next]_vars

\* the number of calls of get_attachment_file for item zid in the log f
Fetched(f, zid) == Cardinality({i \in 1..Len(f) : f[i] = zid})

\* the attachments of the repository
Catalog ==
    UNION {{env.atts[c].items[i] : i \in 1..Len(env.atts[c].items)} : c \in DOMAIN env.atts}

\* the notes of collection c that show a variant of the image titled title
Showing(c, title) ==
    {i \in 1..Len(env.notes[c].items) :
        \E k \in 1..Len(env.notes[c].items[i].note) :
            LET e == env.notes[c].items[i].note[k]
            IN  /\ e.tag = "img" /\ ~IsNone(e.src)
                /\ Len(Split(Basename(e.src[1]), ".")) = 2
                /\ Split(Split(Basename(e.src[1]), ".")[1], "_")[1]
                      \o <<".">> \o Split(Basename(e.src[1]), ".")[2] = title}

----------------------------------------------------------------------------
(* Fragments with an img tag that has no src                                *)

\* the notes of the repository, each with the key of its collection
RepoNotes ==
    UNION {{[coll |-> c, note |-> env.notes[c].items[i]] :
               i \in 1..Len(env.notes[c].items)} : c \in DOMAIN env.notes}

\* an img tag of the note has no src, every other img tag has a well-formed
\* name, and the collection of the note has no attachments
OnlyFaultIsNoSrc(n) ==
    /\ \E k \in 1..Len(n.note.note) :
          n.note.note[k].tag = "img" /\ IsNone(n.note.note[k].src)
    /\ \A k \in 1..Len(n.note.note) :
          (n.note.note[k].tag = "img" /\ ~IsNone(n.note.note[k].src))
             => n.note.note[k].src[1] \in GoodSrcs
    /\ env.atts[n.coll].ok
    /\ env.atts[n.coll].items = <<>>

\* C11: when initialize_data has returned, a note with an img tag that has no
\* src is a fragment of the page, that tag is no longer in the fragment, no
\* missing image was recorded for it, and every other img tag of the note was
\* rewritten.
C11_NoSrcTagRemoved ==
    st = "initialized"
    => \A n \in RepoNotes :
          OnlyFaultIsNoSrc(n)
          => \E hc \in Fragments :
                /\ hc.zid = n.note.key
                /\ \A k \in 1..Len(hc.html) :
                      hc.html[k].tag = "img" => ~IsNone(hc.html[k].href)
                /\ Len(hc.missing_images)
                     <= Cardinality({k \in 1..Len(n.note.note) :
                                        /\ n.note.note[k].tag = "img"
                                        /\ ~IsNone(n.note.note[k].src)})

----------------------------------------------------------------------------
(* SpecDir: one tab with one note that holds a pre tag, alone or next to a  *)
(* heading, an image or a second pre tag; the directive of the pre tag, the *)
(* groups, the collections and the records of the repository differ         *)

MaxItems == 2

AllFields == ItemFields \cup ResearchProjectFields \cup ConferencePaperFields
             \cup JournalPaperFields

\* the records a collection may hold
Records ==
    {[title |-> t, date |-> d, fields |-> f] :
        t \in {"a", "b"},
        d \in {<<"2", "0", "1", "8">>, <<"2", "0", "2", "0">>},
        f \in {AllFields, AllFields \ {"pages"}}}

\* eval gives a dict with these keys (None: the key is absent)
Dict(group, coll, item_type, style, tag) ==
    [eval |-> "dict",
     value |-> [group |-> group, coll |-> coll, item_type |-> item_type,
                style |-> style, tag |-> tag]]

Directives ==
    {Dict(Some("G"), Some("C"), Some("conferencePaper"), Some(y), None) :
        y \in Styles \cup {"bogus"}}
    \cup {Dict(Some("G"), Some("C"), Some("conferencePaper"), Some("conference_paper"),
               Some("t")),
          Dict(None, Some("C"), Some("conferencePaper"), Some("conference_paper"), None),
          Dict(Some("G"), None, Some("conferencePaper"), Some("conference_paper"), None),
          Dict(Some("G"), Some("C"), None, Some("conference_paper"), None),
          Dict(Some("G"), Some("C"), Some("conferencePaper"), None, None),
          [Dict(None, None, None, None, None) EXCEPT !.eval = "raises"],
          [Dict(None, None, None, None, None) EXCEPT !.eval = "other"]}

\* the note around the pre tag
Layouts(d) ==
    {<<Pre(d)>>,
     <<H(1, <<"t">>), Pre(d)>>,
     <<Pre(d), H(2, <<"u">>)>>,
     <<Img(Some(PhotoSrc)), Pre(d), H(2, <<"u">>)>>,
     <<H(1, <<"t">>), Pre(d), Img(Some(PhotoSrc))>>,
     <<Pre(d), Pre(Dict(Some("G"), Some("C"), Some("conferencePaper"),
                        Some("journal_paper"), None))>>}

Repositories ==
    {[groups |-> g, colls |-> [ok |-> TRUE, names |-> {"C"}],
      items |-> Answer(<<>>)] : g \in {[ok |-> FALSE, names |-> {}],
                                       [ok |-> TRUE, names |-> {}]}}
    \cup {[groups |-> [ok |-> TRUE, names |-> {"G"}], colls |-> c,
           items |-> Answer(<<>>)] : c \in {[ok |-> FALSE, names |-> {}],
                                            [ok |-> TRUE, names |-> {}]}}
    \cup {[groups |-> [ok |-> TRUE, names |-> {"G"}],
           colls |-> [ok |-> TRUE, names |-> {"C"}],
           items |-> a] : a \in {Failure} \cup {Answer(i) : i \in SeqUpTo(Records, MaxItems)}}

InitDir ==
    /\ InitProgram
    /\ disk = {}
    /\ \E d \in Directives, zot \in Repositories :
       \E html \in Layouts(d) :
          env = [OneTab(<<"1", "_", "H">>, Answer(<<Note(NoteKeys[1], {}, html)>>),
                        Answer(<<>>), {})
                 EXCEPT !.zot = zot]

SpecDir == InitDir /\ [][Next]_vars

\* the record of the repository behind a list item: uid is str(i) for the
\* i-th record of the answer, counted from 0
RecordOf(li) == env.zot.items.items[IntVal(li.uid) + 1]

YearOf(record) == IntVal(Last4(record.date))

\* a note of the repository whose only pre tags are directives with all four
\* keys, in a repository that knows the group and the collection and answers
\* the query for the records
Answered(n) ==
    /\ env.zot.groups.ok /\ env.zot.colls.ok /\ env.zot.items.ok
    /\ \A k \in 1..Len(n.note.note) :
          n.note.note[k].tag = "pre"
          => LET d == n.note.note[k].string[1]
             IN  /\ d.eval = "dict"
                 /\ ~IsNone(d.value.group) /\ d.value.group[1] \in env.zot.groups.names
                 /\ ~IsNone(d.value.coll) /\ d.value.coll[1] \in env.zot.colls.names
                 /\ ~IsNone(d.value.item_type)
                 /\ ~IsNone(d.value.style)

\* C12: every list that a directive rendered shows one item per record, a
\* record of a later year before a record of an earlier year and records of
\* the same year in the order of the repository's answer.
C12_YearDescending ==
    \A hc \in Fragments : \A k \in 1..Len(hc.html) :
        hc.html[k].tag = "ul"
        => LET lis == hc.html[k].contents
           IN  /\ Len(lis) = Len(env.zot.items.items)
               /\ \A i, j \in 1..Len(lis) :
                     i < j
                     => \/ YearOf(RecordOf(lis[i])) > YearOf(RecordOf(lis[j]))
                        \/ /\ YearOf(RecordOf(lis[i])) = YearOf(RecordOf(lis[j]))
                           /\ IntVal(lis[i].uid) < IntVal(lis[j].uid)

\* C13: a directive whose style is not a key of the mapping, and that has no
\* other fault, is not rendered as a list, and its note is a fragment of the
\* page with its other pre tags rendered.
C13_UnknownStyleRejected ==
    st = "initialized"
    => \A n \in RepoNotes :
          Answered(n)
          => \A k \in 1..Len(n.note.note) :
                (/\ n.note.note[k].tag = "pre"
                 /\ n.note.note[k].string[1].value.style[1] \notin Styles)
                => \E hc \in Fragments :
                      /\ hc.zid = n.note.key
                      /\ hc.html[k].tag = "pre"
                      /\ \A j \in 1..Len(hc.html) :
                            (/\ n.note.note[j].tag = "pre"
                             /\ n.note.note[j].string[1].value.style[1] \in Styles)
                            => hc.html[j].tag = "ul"

----------------------------------------------------------------------------
(* The diagnostics of initialize_data                                       *)

\* C15: when every tab label parses, initialize_data returns its info_str,
\* whatever queries of the repository fail, and the info_str holds a message
\* for every tab whose query for the notes failed.
C15_FailuresReturned ==
    (/\ st # "new"
     /\ env.subs.ok
     /\ \A k \in 1..Len(env.subs.items) : Parseable(env.subs.items[k].name))
    => /\ st = "initialized"
       /\ (\E c \in DOMAIN env.notes : ~env.notes[c].ok)
             => \E i \in 1..Len(info) :
                   info[i] = "ERROR: Failed to get data from the zotero database."

----------------------------------------------------------------------------
(* The order of the stages of process_html_tags, read from info_str         *)

ImgStage == {"Found img tag."}

PreStage == {"Replacing the pre tag.", "Found pre tag."}

HeadStage == {"Found h? tag."}

\* messages i and j of info_str are about the same note
SameNote(i, j) ==
    \A m \in (i + 1)..j : info[m] # "Creating HTML content from note."

----------------------------------------------------------------------------
(* Image references whose files exist                                       *)

\* C18: for an img tag of a fragment whose small and big file are both in
\* the image directory, the fragment's missing-image list names neither
\* file, no attachment of that title is fetched and the two files are the
\* ones that were there.
C18_ExistingSkipped ==
    \A hc \in Fragments : \A k \in 1..Len(hc.html) :
        \A b \in ImgBases, wd \in ImgWidths, ht \in ImgHeights, x \in ImgExts :
            (/\ NoteOf(hc).note[k].tag = "img"
             /\ NoteOf(hc).note[k].src = Some(NameOf(b, wd, ht, x))
             /\ NameOf(b, wd, ht, x) \in FileNames(disk)
             /\ BigNameOf(b, x) \in FileNames(disk))
            => /\ \A m \in 1..Len(hc.missing_images) :
                     \A d \in 1..Len(hc.missing_images[m].details) :
                        hc.missing_images[m].details[d].loc
                           \notin {NameOf(b, wd, ht, x), BigNameOf(b, x)}
               /\ \A a \in Catalog : a.title = b \o <<".">> \o x => Fetched(fetches, a.key) = 0
               /\ \A f \in disk :
                     f.name \in {NameOf(b, wd, ht, x), BigNameOf(b, x)} => f \in OldFiles

\* p_w300.jpg and p_w1200_h1200.jpg were there: the tag was rewritten and
\* nothing was recorded as missing
C18_Witness ==
    /\ st = "initialized"
    /\ \E hc \in Fragments :
          /\ Len(hc.html) = 1
          /\ NoteOf(hc).note[1].src = Some(NameOf(<<"p">>, Some(300), None, <<"j", "p", "g">>))
          /\ FileNames(disk) = FileNames(OldFiles)
          /\ hc.missing_images = <<>>
          /\ hc.html[1].href = Some(ImgHrefPrefix \o BigNameOf(<<"p">>, <<"j", "p", "g">>))

----------------------------------------------------------------------------
(* Titles that the attachments of the collection do not hold                *)

\* every element of the note is an img tag with a well-formed name
AllGoodImgs(n) ==
    \A k \in 1..Len(n.note.note) :
        /\ n.note.note[k].tag = "img"
        /\ ~IsNone(n.note.note[k].src)
        /\ n.note.note[k].src[1] \in GoodSrcs

\* C19: when initialize_data has returned, for every img tag of a note of
\* well-formed img tags: if no attachment of the collection has the title of
\* the tag, no file of that name was written and a file that is missing is
\* reported with "Could not find image: "; if an attachment has the title,
\* the small and the big file are in the image directory, whatever other
\* titles of the note are absent.
C19_AbsentTitleSkipped ==
    st = "initialized"
    => \A n \in RepoNotes :
          (AllGoodImgs(n) /\ env.atts[n.coll].ok)
          => \A k \in 1..Len(n.note.note) :
                \A b \in ImgBases, wd \in ImgWidths, ht \in ImgHeights, x \in ImgExts :
                   n.note.note[k].src = Some(NameOf(b, wd, ht, x))
                   => IF \E a \in Catalog : a.title = b \o <<".">> \o x
                      THEN {NameOf(b, wd, ht, x), BigNameOf(b, x)} \subseteq FileNames(disk)
                      ELSE /\ \A f \in disk :
                                 f.name \in {NameOf(b, wd, ht, x), BigNameOf(b, x)}
                                    => f \in OldFiles
                           /\ ~({NameOf(b, wd, ht, x), BigNameOf(b, x)} \subseteq FileNames(disk))
                                 => \E i \in 1..Len(info) : info[i] = "Could not find image: "

----------------------------------------------------------------------------
(* SpecMat: get_images_from_zotero on a fragment with two missing images    *)

\* the two attachments of the collection: each may fail to download and may
\* hold bytes that PIL cannot open
MatAttachments ==
    {<<[Attachment("a1", <<"p", ".", "j", "p", "g">>, <<4, 2>>)
           EXCEPT !.fetch_ok = f1, !.is_image = i1],
       [Attachment("a2", <<"q", ".", "j", "p", "g">>, <<4, 2>>)
           EXCEPT !.fetch_ok = f2, !.is_image = i2]>> :
        f1 \in BOOLEAN, i1 \in BOOLEAN, f2 \in BOOLEAN, i2 \in BOOLEAN}

\* the entries of missing_images for src="p_w3.jpg" and src="q_w3.jpg"
MatMissing ==
    <<Request(<<"p">>, Some(3), None, <<"j", "p", "g">>),
      Request(<<"q">>, Some(3), None, <<"j", "p", "g">>)>>

MatPaths == {MatMissing[m].details[d].loc : m \in 1..2, d \in 1..2}

InitMat ==
    /\ disk = {} /\ twp_tabs = <<>> /\ st = "call" /\ info = <<>> /\ fetches = <<>>
    /\ queries = <<>> /\ wg = WG_TabbedWebsite
    /\ pages = <<>> /\ hist = <<>> /\ env = [op |-> "none"]
    /\ ret = None
    /\ \E atts \in MatAttachments, pil_fail \in SUBSET MatPaths :
          call = [op |-> "get_images_from_zotero",
                  hc |-> [HtmlContent(Note(NoteKeys[1], {}, <<>>))
                             EXCEPT !.images = {HtmlImage(atts[1]), HtmlImage(atts[2])},
                                    !.missing_images = MatMissing],
                  pil_fail |-> pil_fail]

GetImagesFromZotero ==
    /\ call.op = "get_images_from_zotero"
    /\ ret = None
    /\ ret' = Some(get_images_from_zotero(call.hc,
                       [disk |-> disk, fetches |-> fetches, queries |-> queries],
                       call.pil_fail))
    /\ UNCHANGED <<env, disk, twp_tabs, st, info, fetches, queries, wg, pages,
                 hist, call>>

NextMat == GetImagesFromZotero

SpecMat == InitMat /\ [][NextMat]_vars

----------------------------------------------------------------------------
(* website_generator: HtmlImageTag, HtmlContent, WebTab                     *)

\* an element of an html attachment; width and height are the attributes of
\* an img tag; href is set on an img that get_html has wrapped in a link
WG_Img(src, width, height) ==
    [tag |-> "img", src |-> src, width |-> width, height |-> height, href |-> None]

WG_H(level, text) == [tag |-> "h", level |-> level, text |-> text, id |-> None]

WG_P(text) == [tag |-> "p", text |-> text]

\* "<p>No content found.</p>"
WG_NoContentFound == <<WG_P("No content found.")>>

\* HtmlContent._image_key: str(src), str(width) and str(height) joined by "_"
WG_image_key(img) == <<img.src, img.width, img.height>>

\* HtmlContent.__init__ of website_generator.py
WG_HtmlContent(html_id, html_attachment) ==
    [html_id |-> html_id, html_attachment |-> html_attachment, html_str |-> None,
     script_str |-> None, image_tags |-> {}]

\* the loop of lines 388-391 from element k of the body on: image_tags is a
\* dict, kept as the set of its items
RECURSIVE WG_image_tags_loop(_, _, _)
WG_image_tags_loop(body, k, image_tags) ==
    LET Store(img, t) ==
            IF t.exc # "none" THEN [exc |-> t.exc, image_tags |-> image_tags]
            ELSE WG_image_tags_loop(body, k + 1,
                     {i \in image_tags : i.key # WG_image_key(img)}
                     \cup {[key |-> WG_image_key(img), original_name |-> t.original_name,
                            new_name |-> t.new_name]})
    IN  IF k > Len(body) THEN [exc |-> "none", image_tags |-> image_tags]
        ELSE IF body[k].tag # "img" THEN WG_image_tags_loop(body, k + 1, image_tags)
        ELSE Store(body[k], HtmlImageTag_initialize_data(body[k].src, body[k].width,
                                                         body[k].height))

\* an HtmlContent.initialize_data that leaves html_str as it is when the
\* attachment cannot be read
WG_HtmlContent_initialize_data_bare(hc) ==
    LET file == hc.html_attachment.file
        Failed(c) ==
            [hc |-> c,
             info |-> <<"    Creating data for html content.",
                        "    Failed to create html content.">>]
        Tags(c, t) ==
            IF t.exc # "none" THEN Failed([c EXCEPT !.image_tags = t.image_tags])
            ELSE [hc |-> [c EXCEPT !.image_tags = t.image_tags],
                  info |-> <<"    Creating data for html content.">>]
        Body(c) ==
            IF IsNone(file.body) THEN Failed(c)
            ELSE Tags([c EXCEPT !.html_str = file.body],
                      WG_image_tags_loop(file.body[1], 1, c.image_tags))
    IN  IF ~file.ok THEN Failed(hc)
        ELSE Body([hc EXCEPT !.script_str = file.script])

\* HtmlContent.initialize_data of website_generator.py: every exception is
\* caught and leaves the placeholder as html_str
WG_HtmlContent_initialize_data(hc) ==
    LET file == hc.html_attachment.file
        Failed(c) ==
            [hc |-> [c EXCEPT !.html_str = Some(WG_NoContentFound)],
             info |-> <<"    Creating data for html content.",
                        "    Failed to create html content.">>]
        Tags(c, t) ==
            IF t.exc # "none" THEN Failed([c EXCEPT !.image_tags = t.image_tags])
            ELSE [hc |-> [c EXCEPT !.image_tags = t.image_tags],
                  info |-> <<"    Creating data for html content.">>
                           \o Times(Cardinality({k \in 1..Len(file.body[1]) :
                                                    file.body[1][k].tag = "img"}),
                                    "      Creating image tag.")]
        Body(c) ==
            IF IsNone(file.body) THEN Failed(c)
            ELSE Tags([c EXCEPT !.html_str = file.body],
                      WG_image_tags_loop(file.body[1], 1, c.image_tags))
    IN  IF ~file.ok THEN Failed(hc)
        ELSE Body([hc EXCEPT !.script_str = file.script])

\* WebTab.__init__
WG_WebTab(item) ==
    [item |-> item, name |-> item.title, sort_key |-> None, html_id |-> None,
     html_attachments |-> None, html_content |-> None]

WG_ContentTag == "html-content"

\* WebTab.initialize_data
WG_WebTab_initialize_data(tab) ==
    LET Created == <<"  Creating data for tab.">>
        \* lines 296-301
        Keyed ==
            IF IntOk(tab.item.callNumber)
            THEN [tab |-> [tab EXCEPT !.sort_key = Some(IntVal(tab.item.callNumber)),
                                      !.html_id = Some(HtmlId(tab.item.title))],
                  info |-> Created]
            ELSE [tab |-> tab,
                  info |-> Created \o <<"  ERROR: Failed to set data for this web tabs.">>]
        ZoteroError(t, msgs) ==
            [tab |-> t,
             info |-> msgs \o <<"  ERROR: Failed to get data from the zotero database.">>]
        Content(t, msgs, c) ==
            [tab |-> [t EXCEPT !.html_content = Some(c.hc)], info |-> msgs \o c.info]
        \* lines 314-316
        Selected(t, msgs, selected) ==
            Content(t, msgs, WG_HtmlContent_initialize_data(
                                 WG_HtmlContent(t.html_id, selected)))
        \* lines 306-313: selected is not bound when no attachment has the tag
        Select(t, msgs, files) ==
            IF Len(files) = 1 THEN Selected(t, msgs, files[1])
            ELSE IF \E i \in 1..Len(files) : WG_ContentTag \in files[i].tags
            THEN Selected(t, msgs,
                          files[CHOOSE i \in 1..Len(files) :
                                   /\ WG_ContentTag \in files[i].tags
                                   /\ \A j \in 1..(i - 1) : WG_ContentTag \notin files[j].tags])
            ELSE ZoteroError(t, msgs)
        Attachments(k) ==
            IF ~tab.item.html_attachments.ok THEN ZoteroError(k.tab, k.info)
            ELSE IF tab.item.html_attachments.items = <<>>
            THEN [tab |-> [k.tab EXCEPT !.html_attachments = Some(<<>>)],
                  info |-> k.info \o <<"  No html content was found.">>]
            ELSE Select([k.tab EXCEPT !.html_attachments =
                                         Some(tab.item.html_attachments.items)],
                        k.info \o <<"  Html content was found">>,
                        tab.item.html_attachments.items)
    IN  Attachments(Keyed)

\* the headings that find_all(['h1', .., 'h6']) finds: the headings of the
\* text and the h2 of every table of contents
WG_IsHeading(e) == e.tag \in {"h", "toc"}

\* HtmlContent._process_jinja2: the script of the attachment is executed and
\* the text, which holds no jinja2 expression, is rendered as it is
WG_process_jinja2(hc) ==
    IF IsNone(hc.html_str) THEN [exc |-> "AttributeError", hc |-> hc]
    ELSE IF ~IsNone(hc.script_str) /\ hc.script_str[1].raises
    THEN [exc |-> "ScriptError", hc |-> hc]
    ELSE [exc |-> "none", hc |-> hc]

\* HtmlImageTag.get_html: the img tag inside a link to the original image
WG_HtmlImageTag_get_html(image_tag, images_url) ==
    [tag |-> "img", src |-> Some(images_url \o image_tag.new_name), width |-> None,
     height |-> None, href |-> Some(images_url \o image_tag.original_name)]

\* HtmlContent._process_img_tags
WG_process_img_tags(hc, images_url) ==
    LET html == hc.html_str[1]
        Known(e) == \E i \in hc.image_tags : i.key = WG_image_key(e)
        TagOf(e) == CHOOSE i \in hc.image_tags : i.key = WG_image_key(e)
    IN  IF \E k \in 1..Len(html) : html[k].tag = "img" /\ ~Known(html[k])
        THEN [exc |-> "KeyError", hc |-> hc]
        ELSE [exc |-> "none",
              hc |-> [hc EXCEPT !.html_str =
                         Some([k \in 1..Len(html) |->
                                 IF html[k].tag = "img"
                                 THEN WG_HtmlImageTag_get_html(TagOf(html[k]), images_url)
                                 ELSE html[k]])]]

\* HtmlContent._process_h_tags: "h_" + str(html_id) + "_" + str(i)
WG_process_h_tags(hc) ==
    LET html == hc.html_str[1]
        Before(k) == Cardinality({j \in 1..(k - 1) : WG_IsHeading(html[j])})
    IN  [hc EXCEPT !.html_str =
            Some([k \in 1..Len(html) |->
                    IF WG_IsHeading(html[k])
                    THEN [html[k] EXCEPT !.id = Some(<<"h", hc.html_id, Before(k)>>)]
                    ELSE html[k]])]

\* the entries of the toc, lines 460-466, from element k on
RECURSIVE WG_toc_entries(_, _)
WG_toc_entries(html, k) ==
    IF k > Len(html) THEN <<>>
    ELSE IF WG_IsHeading(html[k])
    THEN <<[class |-> html[k].level, string |-> html[k].text, href |-> html[k].id]>>
         \o WG_toc_entries(html, k + 1)
    ELSE WG_toc_entries(html, k + 1)

\* HtmlContent._process_toc: the toc, whose h2 has no id, goes before the
\* text; a heading without text raises TypeError as in make_toc
WG_process_toc(hc) ==
    LET html == hc.html_str[1]
        Fails(e) == WG_IsHeading(e) /\ (e.text = "" \/ IsNone(e.id))
    IN  IF \E k \in 1..Len(html) : Fails(html[k])
        THEN LET k == CHOOSE j \in 1..Len(html) :
                          Fails(html[j]) /\ \A m \in 1..(j - 1) : ~Fails(html[m])
             IN  [exc |-> IF html[k].text = "" THEN "TypeError" ELSE "KeyError",
                  hc |-> hc]
        ELSE [exc |-> "none",
              hc |-> [hc EXCEPT !.html_str =
                         Some(<<[tag |-> "toc", level |-> 2, text |-> "Contents",
                                 id |-> None, entries |-> WG_toc_entries(html, 1)]>>
                              \o html)]]

\* HtmlContent.get_html of website_generator.py: every step stores its
\* result in html_str
WG_HtmlContent_get_html(hc, images_url) ==
    LET Toc(t) == [exc |-> t.exc, hc |-> t.hc, html |-> t.hc.html_str]
        Imgs(i) ==
            IF i.exc # "none" THEN [exc |-> i.exc, hc |-> i.hc, html |-> None]
            ELSE Toc(WG_process_toc(WG_process_h_tags(i.hc)))
        Jinja(j) ==
            IF j.exc # "none" THEN [exc |-> j.exc, hc |-> j.hc, html |-> None]
            ELSE Imgs(WG_process_img_tags(j.hc, images_url))
    IN  Jinja(WG_process_jinja2(hc))

\* WebTab.get_button_html
WG_get_button_html(tab) ==
    IF IsNone(tab.html_id) THEN [exc |-> "TypeError", href |-> <<>>, string |-> tab.name]
    ELSE [exc |-> "none", href |-> <<"#">> \o tab.html_id[1], string |-> tab.name]

\* WebTab.get_content_html
WG_get_content_html(tab, images_url) ==
    LET Div(h) ==
            [exc |-> h.exc, tab |-> [tab EXCEPT !.html_content = Some(h.hc)],
             id |-> tab.html_id, html |-> h.html]
    IN  IF IsNone(tab.html_content)
        THEN [exc |-> "AttributeError", tab |-> tab, id |-> tab.html_id, html |-> None]
        ELSE Div(WG_HtmlContent_get_html(tab.html_content[1], images_url))

----------------------------------------------------------------------------
(* website_generator: Images                                                *)

\* Images._image_in_zotero; zot_attachments is the list of the attachments
WG_image_in_zotero(zot_attachments, image_name) ==
    \E k \in 1..Len(zot_attachments) :
        image_name \in {zot_attachments[k].filename, zot_attachments[k].title}

\* Images._get_attachment_from_zotero, its first match: by filename, then by
\* title
WG_get_attachment_from_zotero(zot_attachments, image_name) ==
    LET ByName == {k \in 1..Len(zot_attachments) : zot_attachments[k].filename = image_name}
        ByTitle == {k \in 1..Len(zot_attachments) : zot_attachments[k].title = image_name}
        First(S) == CHOOSE k \in S : \A j \in S : k <= j
    IN  zot_attachments[First(IF ByName # {} THEN ByName ELSE ByTitle)]

\* Images._get_image_from_zotero: the bytes of the attachment are written
\* under image_name
WG_get_image_from_zotero(zot_attachments, w, image_name) ==
    LET att == WG_get_attachment_from_zotero(zot_attachments, image_name)
        fetched == [w EXCEPT !.fetches = Append(@, att.key)]
    IN  IF ~att.fetch_ok THEN [exc |-> "IOError", w |-> fetched]
        ELSE [exc |-> "none",
              w |-> [fetched EXCEPT !.disk =
                        {f \in @ : f.name # image_name}
                        \cup {[name |-> image_name, zid |-> att.key, size |-> att.size]}]]

\* Images._create_original_image
WG_create_original_image(zot_attachments, w, image_tag) ==
    LET Got(g) ==
            [exc |-> g.exc, w |-> g.w,
             info |-> IF g.exc = "none" THEN <<"Image was created.">> ELSE <<>>]
    IN  IF image_tag.original_name \in FileNames(w.disk)
        THEN [exc |-> "none", w |-> w, info |-> <<"Image was in dirpath.">>]
        ELSE IF ~WG_image_in_zotero(zot_attachments, image_tag.original_name)
        THEN [exc |-> "none", w |-> w, info |-> <<"Image was not found in zotero.">>]
        ELSE Got(WG_get_image_from_zotero(zot_attachments, w, image_tag.original_name))

\* Images._create_new_image: _get_and_resize_image_from_zotero reads the
\* name image_name, which it does not bind
WG_create_new_image(zot_attachments, w, image_tag) ==
    IF image_tag.new_name \in FileNames(w.disk)
    THEN [exc |-> "none", w |-> w, info |-> <<"Image was in dirpath.">>]
    ELSE IF ~WG_image_in_zotero(zot_attachments, image_tag.original_name)
    THEN [exc |-> "none", w |-> w, info |-> <<"Image was not found in zotero.">>]
    ELSE [exc |-> "NameError", w |-> w, info |-> <<>>]

\* Images.create_image_files for the image tags that are left; an exception
\* ends the work on one tag.  The tags come from the values of a dict, whose
\* order does not change the files written.
RECURSIVE WG_create_image_files(_, _, _)
WG_create_image_files(image_tags, zot_attachments, w) ==
    LET Log(msgs, rest) == [rest EXCEPT !.info = msgs \o @]
        Rest(t, w1) == WG_create_image_files(image_tags \ {t}, zot_attachments, w1)
        New(t, o, n) ==
            IF n.exc # "none" THEN Log(o.info \o <<"  EXCEPTION: ">>, Rest(t, n.w))
            ELSE Log(o.info \o n.info, Rest(t, n.w))
        Original(t, o) ==
            IF o.exc # "none" THEN Log(<<"  EXCEPTION: ">>, Rest(t, o.w))
            ELSE New(t, o, WG_create_new_image(zot_attachments[1], o.w, t))
        Tag(t) ==
            IF IsNone(zot_attachments)
            THEN IF {t.original_name, t.new_name} \subseteq FileNames(w.disk)
                 THEN Log(<<"Image was in dirpath.", "Image was in dirpath.">>, Rest(t, w))
                 ELSE Log(<<"  EXCEPTION: ">>, Rest(t, w))
            ELSE Original(t, WG_create_original_image(zot_attachments[1], w, t))
    IN  IF image_tags = {} THEN [w |-> w, info |-> <<>>]
        ELSE Tag(CHOOSE t \in image_tags : TRUE)

----------------------------------------------------------------------------
(* website_generator: TabbedWebsite                                         *)

\* the loop of lines 114-120 from item k on
RECURSIVE WG_items_loop(_, _, _)
WG_items_loop(site, items, k) ==
    LET Log(msgs, rest) == [rest EXCEPT !.info = msgs \o @]
        Tab(t) ==
            Log(t.info, WG_items_loop([site EXCEPT !.tabs = Append(@, t.tab)], items, k + 1))
    IN  IF k > Len(items) THEN [site |-> site, info |-> <<>>]
        ELSE IF items[k].title = <<"H", "e", "a", "d">>
        THEN WG_items_loop([site EXCEPT !.head = Some(items[k])], items, k + 1)
        ELSE Tab(WG_WebTab_initialize_data(WG_WebTab(items[k])))

\* TabbedWebsite.initialize_data of website_generator.py; e holds what the
\* three collections answer
WG_TabbedWebsite_initialize_data(site, e) ==
    LET Created == <<"Creating data for the website.">>
        Checked(r) ==
            [site |-> [r.site EXCEPT !.tabs = SortTabs(@)],
             info |-> Created \o r.info
                      \o (IF IsNone(r.site.head) THEN <<"ERROR: Head was not found.">>
                          ELSE <<>>)
                      \o (IF r.site.tabs = <<>> THEN <<"ERROR: no tabs were found.">>
                          ELSE <<>>)]
        \* lines 100-108: html_files[0] of an empty list raises IndexError
        Template(s1) ==
            IF ~e.template.ok \/ e.template.items = <<>>
               \/ ~e.template.items[1].file.ok
            THEN [site |-> s1, info |-> Created \o <<"ERROR: could not get sub-collections">>]
            ELSE Checked(WG_items_loop(
                     [s1 EXCEPT !.template_str = Some(e.template.items[1].file)],
                     e.website.items, 1))
    IN  IF ~e.website.ok
        THEN [site |-> site, info |-> Created \o <<"ERROR: could not get sub-collections">>]
        ELSE IF e.website.items = <<>>
        THEN [site |-> site,
              info |-> Created \o <<"ERROR: could not find any items to create tabs from.">>]
        ELSE IF ~e.images.ok
        THEN [site |-> site, info |-> Created \o <<"ERROR: could not get sub-collections">>]
        ELSE Template([site EXCEPT !.zot_images = Some(e.images.items)])

\* TabbedWebsite._get_buttons_html
WG_get_buttons_html(tabs) == [k \in 1..Len(tabs) |-> WG_get_button_html(tabs[k])]

\* TabbedWebsite._get_content_html from tab k on: get_html changes the
\* html_content of the tab it renders
RECURSIVE WG_get_content_html_loop(_, _, _, _)
WG_get_content_html_loop(tabs, images_url, k, content) ==
    LET Next1(c) ==
            IF c.exc # "none"
            THEN [exc |-> c.exc, tabs |-> [tabs EXCEPT ![k] = c.tab], content |-> content]
            ELSE WG_get_content_html_loop([tabs EXCEPT ![k] = c.tab], images_url, k + 1,
                                          Append(content, [id |-> c.id, html |-> c.html]))
    IN  IF k > Len(tabs) THEN [exc |-> "none", tabs |-> tabs, content |-> content]
        ELSE Next1(WG_get_content_html(tabs[k], images_url))

\* TabbedWebsite._get_html of website_generator.py
WG_get_html(site, images_url) ==
    LET buttons == WG_get_buttons_html(site.tabs)
        Render(c) ==
            IF c.exc # "none"
            THEN [exc |-> c.exc, site |-> [site EXCEPT !.tabs = c.tabs], html |-> None]
            ELSE IF IsNone(site.template_str)
            THEN [exc |-> "AttributeError", site |-> [site EXCEPT !.tabs = c.tabs],
                  html |-> None]
            ELSE [exc |-> "none", site |-> [site EXCEPT !.tabs = c.tabs],
                  html |-> Some([head |-> site.head, buttons |-> buttons,
                                 content |-> c.content])]
    IN  IF \E k \in 1..Len(buttons) : buttons[k].exc # "none"
        THEN [exc |-> "TypeError", site |-> site, html |-> None]
        ELSE Render(WG_get_content_html_loop(site.tabs, images_url, 1, <<>>))

\* TabbedWebsite._create_image_files
WG_TabbedWebsite_create_image_files(site, w) ==
    LET all_image_tags ==
            UNION {site.tabs[k].html_content[1].image_tags : k \in 1..Len(site.tabs)}
        Created(c) == [exc |-> "none", w |-> c.w, info |-> <<"  Creating image files.">> \o c.info]
    IN  IF \E k \in 1..Len(site.tabs) : IsNone(site.tabs[k].html_content)
        THEN [exc |-> "AttributeError", w |-> w, info |-> <<>>]
        ELSE Created(WG_create_image_files(all_image_tags, site.zot_images, w))

\* TabbedWebsite._create_html_file: open(website_filepath, 'w') has made the
\* file empty when _get_html is called; file is the content of the file
WG_create_html_file(site, images_url) ==
    LET Write(h) ==
            [exc |-> h.exc, site |-> h.site,
             file |-> IF h.exc = "none" THEN h.html ELSE None,
             info |-> IF h.exc = "none" THEN <<"  Creating html file.">> ELSE <<>>]
    IN  Write(WG_get_html(site, images_url))

\* TabbedWebsite.create_website; page is None when the file was not opened,
\* and else holds the content of the file, which is None for an empty file
WG_create_website(site, w, images_url) ==
    LET Writing == <<"Writing files to disk: ">>
        Failed == <<"ERROR: could not write files to disk. ">>
        Html(i, h) ==
            [site |-> h.site, w |-> i.w, page |-> Some(h.file),
             info |-> Writing \o i.info \o (IF h.exc = "none" THEN h.info ELSE Failed)]
        Images_(i) ==
            IF i.exc # "none"
            THEN [site |-> site, w |-> i.w, page |-> None, info |-> Writing \o Failed]
            ELSE Html(i, WG_create_html_file(site, images_url))
    IN  Images_(WG_TabbedWebsite_create_image_files(site, w))

----------------------------------------------------------------------------
(* The program of website_generator.py                                      *)

ImagesUrl == <<".", "/", "i", "m", "g", "/">>

\* test_tabs line 558: twp.initialize_data()
WG_InitializeData ==
    /\ st = "wg_new"
    /\ \E r \in {WG_TabbedWebsite_initialize_data(wg, env)} :
           /\ wg' = r.site
           /\ info' = r.info
    /\ st' = "wg_initialized"
    /\ UNCHANGED <<env, disk, twp_tabs, fetches, queries, pages, hist, call, ret>>

\* test_tabs line 564: twp.create_website(...); pages holds what every call
\* did to the page file
WG_CreateWebsite ==
    /\ st = "wg_initialized"
    /\ Len(pages) < MaxRenders
    /\ \E r \in {WG_create_website(wg, [disk |-> disk, fetches |-> fetches,
                                        queries |-> queries], ImagesUrl)} :
           /\ wg' = r.site
           /\ disk' = r.w.disk
           /\ fetches' = r.w.fetches
           /\ info' = r.info
           /\ pages' = Append(pages, [page |-> r.page])
    /\ UNCHANGED <<env, twp_tabs, st, queries, hist, call, ret>>

NextSite == Next \/ WG_InitializeData \/ WG_CreateWebsite

----------------------------------------------------------------------------
(* SpecSite: pages of up to two tabs, built by website_generator.py from    *)
(* items with html attachments and by zotero_reader.py from notes           *)

MaxSiteTabs == 2

WG_Attachment(key, filename, title) ==
    [key |-> key, filename |-> filename, title |-> title, fetch_ok |-> TRUE,
     size |-> <<4, 2>>]

\* the answer of get_file_data for an html attachment
HtmlFile(script, body) == [ok |-> TRUE, script |-> script, body |-> body]

NoFile == [ok |-> FALSE, script |-> None, body |-> None]

HtmlAttachment(tags, file) == [tags |-> tags, file |-> file]

GoodBody == <<WG_H(1, "t"), WG_Img(Some(<<"p", ".", "j", "p", "g">>), Some(<<"3">>), None)>>

\* html attachments that HtmlContent.initialize_data cannot read: the file
\* is not delivered, it has no body, an img has no src, a src has no dot
BrokenFiles ==
    {NoFile,
     HtmlFile(None, None),
     HtmlFile(None, Some(<<WG_P("x"), WG_Img(None, None, None)>>)),
     HtmlFile(None, Some(<<WG_Img(Some(<<"p", ".", "j", "p", "g">>), None, None),
                           WG_Img(Some(<<"p">>), None, None)>>))}

SoundFiles ==
    {HtmlFile(None, Some(GoodBody)),
     HtmlFile(None, Some(<<WG_P("x")>>)),
     HtmlFile(Some([raises |-> FALSE]), Some(GoodBody)),
     HtmlFile(Some([raises |-> TRUE]), Some(<<WG_P("x")>>))}

\* what get_html_attachments answers for the item of a tab
SiteContents ==
    {Answer(<<HtmlAttachment({}, f)>>) : f \in BrokenFiles \cup SoundFiles}
    \cup {Answer(<<>>), Failure,
          Answer(<<HtmlAttachment({}, NoFile),
                   HtmlAttachment({WG_ContentTag}, HtmlFile(None, Some(GoodBody)))>>),
          Answer(<<HtmlAttachment({}, HtmlFile(None, Some(GoodBody))),
                   HtmlAttachment({}, HtmlFile(None, Some(GoodBody)))>>)}

SiteTitles == <<<<"A">>, <<"B", " ", "b">>, <<"C">>, <<"D">>>>

\* the call numbers of tab k: its tabs come in descending order
SiteCallNumbers(k) == {Str(9 - k), <<"x">>}

HeadItem == [title |-> <<"H", "e", "a", "d">>, callNumber |-> <<>>,
             html_attachments |-> Answer(<<>>)]

\* the answers of the images collection and of the template collection
SiteCollections ==
    {[images |-> Answer(<<WG_Attachment("a1", <<"p", ".", "j", "p", "g">>, <<"p">>)>>),
      template |-> Answer(<<HtmlAttachment({}, HtmlFile(None, Some(<<>>)))>>)],
     [images |-> Answer(<<>>),
      template |-> Answer(<<HtmlAttachment({}, HtmlFile(None, Some(<<>>)))>>)],
     [images |-> Failure,
      template |-> Answer(<<HtmlAttachment({}, HtmlFile(None, Some(<<>>)))>>)],
     [images |-> Answer(<<[WG_Attachment("a1", <<"x">>, <<"p", ".", "j", "p", "g">>)
                             EXCEPT !.fetch_ok = FALSE]>>),
      template |-> Answer(<<HtmlAttachment({}, HtmlFile(None, Some(<<>>)))>>)],
     [images |-> Answer(<<>>), template |-> Answer(<<>>)],
     [images |-> Answer(<<>>), template |-> Failure]}

\* website_generator.test_tabs has constructed TabbedWebsite
InitSiteWG ==
    /\ twp_tabs = <<>> /\ st = "wg_new" /\ info = <<>> /\ fetches = <<>>
    /\ queries = <<>> /\ wg = WG_TabbedWebsite /\ pages = <<>> /\ hist = <<>>
    /\ call = [op |-> "website_generator"] /\ ret = None
    /\ disk \in {{}, {File(<<"p", ".", "j", "p", "g">>)}}
    /\ \E n \in 0..MaxSiteTabs, colls \in SiteCollections, head \in {"none", "first", "last"},
          website_ok \in BOOLEAN :
       \E numbers \in [1..n -> UNION {SiteCallNumbers(k) : k \in 1..n}],
          contents \in [1..n -> SiteContents] :
          /\ \A k \in 1..n : numbers[k] \in SiteCallNumbers(k)
          /\ website_ok \/ (n = 0 /\ head = "none")
          /\ n > 1 => colls.template.items # <<>> /\ colls.images.ok
          /\ disk # {} => colls.images.ok /\ colls.images.items # <<>>
          /\ env = [website |->
                       IF ~website_ok THEN Failure
                       ELSE Answer((IF head = "first" THEN <<HeadItem>> ELSE <<>>)
                                   \o [k \in 1..n |->
                                         [title |-> SiteTitles[k], callNumber |-> numbers[k],
                                          html_attachments |-> contents[k]]]
                                   \o (IF head = "last" THEN <<HeadItem>> ELSE <<>>)),
                    images |-> colls.images,
                    template |-> colls.template]

\* the notes of a tab of zotero_reader.py: one element each, and an img tag
\* without src is what HtmlContent.initialize_data cannot read
SiteNotes == {<<P>>, <<H(1, <<"t">>)>>, <<Img(None)>>}

InitSiteZR ==
    /\ InitProgram
    /\ disk = {}
    /\ \E n \in 1..MaxSiteTabs :
       \E bodies \in [1..n -> SeqUpTo(SiteNotes, MaxNotes - 1) \ {<<>>}] :
          env = [subs |-> Answer([k \in 1..n |->
                            [collectionKey |-> CollKeys[k], name |-> BuildTabNames[k]]]),
                 notes |-> [c \in {CollKeys[k] : k \in 1..n} |->
                              LET b == bodies[CHOOSE k \in 1..n : CollKeys[k] = c]
                              IN  Answer([i \in 1..Len(b) |->
                                            Note(NoteKeys[i], {MainTextTag}, b[i])])],
                 atts |-> [c \in {CollKeys[k] : k \in 1..n} |-> Answer(<<>>)],
                 pil_fail |-> {}, zot |-> NoZotero]

InitSite == InitSiteWG \/ InitSiteZR

SpecSite == InitSite /\ [][NextSite]_vars

----------------------------------------------------------------------------
(* Fragments that cannot be read                                            *)

\* tab k of website_generator.py has a fragment, made from an attachment
\* that HtmlContent.initialize_data could not read
BrokenTab(k) ==
    /\ ~IsNone(wg.tabs[k].html_content)
    /\ wg.tabs[k].html_content[1].html_attachment.file \in BrokenFiles

\* the page of website_generator.py has no other fault than fragments that
\* cannot be read: there is a template, every tab has an id and a fragment,
\* and no script of a fragment raises
OnlyBrokenFragments ==
    /\ ~IsNone(wg.template_str)
    /\ \A k \in 1..Len(wg.tabs) :
          /\ ~IsNone(wg.tabs[k].html_id)
          /\ ~IsNone(wg.tabs[k].html_content)
          /\ \/ IsNone(wg.tabs[k].html_content[1].script_str)
             \/ ~wg.tabs[k].html_content[1].script_str[1].raises

\* the elements of html that are not a table of contents
Text(html) == SelectSeq(html, LAMBDA e : e.tag # "toc")

\* the file that the first call of create_website wrote
FirstPage == pages[1].page[1][1]

\* the part of C14 on website_generator.py: a fragment that cannot be read
\* is the placeholder with a diagnostic, and the first create_website of a
\* page without other faults writes the page with a block for every tab,
\* the placeholder for that fragment and the text of every other fragment
WG_BrokenFragmentReplaced ==
    (call.op = "website_generator" /\ st = "wg_initialized")
    => \A k \in 1..Len(wg.tabs) :
          BrokenTab(k)
          => /\ pages = <<>>
                => /\ wg.tabs[k].html_content[1].html_str = Some(WG_NoContentFound)
                   /\ \E i \in 1..Len(info) : info[i] = "    Failed to create html content."
             /\ (pages # <<>> /\ OnlyBrokenFragments)
                => /\ pages[1].page # None
                   /\ pages[1].page[1] # None
                   /\ Len(FirstPage.content) = Len(wg.tabs)
                   /\ Text(FirstPage.content[k].html[1]) = WG_NoContentFound
                   /\ \A m \in 1..Len(wg.tabs) :
                         /\ FirstPage.content[m].id = wg.tabs[m].html_id
                         /\ ~BrokenTab(m)
                            => Len(Text(FirstPage.content[m].html[1]))
                                 = Len(wg.tabs[m].html_content[1].html_attachment.file.body[1])

\* the notes of zotero_reader.py that HtmlContent.initialize_data cannot read
BrokenNote(n) == n.note.note = <<Img(None)>>

\* the fragments of the tab made for collection c
FragmentsOf(c) ==
    UNION {{twp_tabs[k].html_content[i] : i \in 1..Len(twp_tabs[k].html_content)} :
              k \in {j \in 1..Len(twp_tabs) : twp_tabs[j].coll_id = c}}

\* the part of C14 on zotero_reader.py that holds: initialize_data returns
\* with a diagnostic for the note, every other note is a fragment of its
\* tab, and the page can be written
ZR_BrokenFragmentSkipped ==
    (call.op = "test_tabs" /\ st # "new" /\ \E n \in RepoNotes : BrokenNote(n))
    => /\ st = "initialized"
       /\ \E i \in 1..Len(info) : info[i] = "Error: Failed to create HTML content from note."
       /\ \A n \in RepoNotes :
             ~BrokenNote(n) => \E hc \in FragmentsOf(n.coll) : hc.zid = n.note.key
       /\ Len(twp_tabs) = Len(env.subs.items)
       /\ get_html(twp_tabs).exc = "none"

----------------------------------------------------------------------------
(* Pages without Head or without tabs                                       *)

\* C16: when initialize_data of website_generator.py has found no Head or
\* no tab, it has reported an error, and no call of create_website that
\* follows opens the page file.
C16_PageFatal ==
    (/\ call.op = "website_generator"
     /\ st = "wg_initialized"
     /\ IsNone(wg.head) \/ wg.tabs = <<>>)
    => /\ pages = <<>>
          => \E i \in 1..Len(info) :
                info[i] \in {"ERROR: Head was not found.", "ERROR: no tabs were found.",
                             "ERROR: could not get sub-collections",
                             "ERROR: could not find any items to create tabs from."}
       /\ \A j \in 1..Len(pages) : pages[j].page = None

----------------------------------------------------------------------------
(* Directives that are not valid                                            *)

\* the dict of a directive lacks one of the four keys
LacksKey(d) ==
    \/ IsNone(d.value.group) \/ IsNone(d.value.coll)
    \/ IsNone(d.value.item_type) \/ IsNone(d.value.style)

\* the style of the directive is not a key of the mapping
UnknownStyle(d) == ~IsNone(d.value.style) /\ d.value.style[1] \notin Styles

\* every pre tag of the note evaluates to a dict that lacks a key or names
\* an unknown style
OnlyInvalidDirectives(n) ==
    /\ \E k \in 1..Len(n.note.note) : n.note.note[k].tag = "pre"
    /\ \A k \in 1..Len(n.note.note) :
          n.note.note[k].tag = "pre"
          => /\ n.note.note[k].string[1].eval = "dict"
             /\ LacksKey(n.note.note[k].string[1]) \/ UnknownStyle(n.note.note[k].string[1])

\* C21: when every directive of the notes lacks a required key or names a
\* style that is not in the mapping, initialize_data sends no query for
\* groups, collections or records to the repository.
C21_ValidatedBeforeQuery ==
    (st # "new" /\ \A n \in RepoNotes : OnlyInvalidDirectives(n))
    => queries = <<>>

----------------------------------------------------------------------------
(* Records that lack a field                                                *)

\* the uids of the records of the answer that the class of the style can be
\* made from
Formattable(style) ==
    {Str(i - 1) : i \in {j \in 1..Len(env.zot.items.items) :
                            MappedClass(style, Str(j - 1), env.zot.items.items[j]).exc
                               = "none"}}

\* C22: when initialize_data has returned, every directive with a known
\* style, in a repository that answers its queries, is rendered as a list
\* that holds one item for each record that has the fields of the style, and
\* no item for a record that lacks one.
C22_BadRecordSkipped ==
    st = "initialized"
    => \A n \in RepoNotes :
          (/\ Answered(n)
           /\ \A k \in 1..Len(n.note.note) :
                 n.note.note[k].tag = "pre"
                 => n.note.note[k].string[1].value.style[1] \in Styles)
          => \E hc \in Fragments :
                /\ hc.zid = n.note.key
                /\ \A k \in 1..Len(n.note.note) :
                      n.note.note[k].tag = "pre"
                      => /\ hc.html[k].tag = "ul"
                         /\ {hc.html[k].contents[i].uid : i \in 1..Len(hc.html[k].contents)}
                              = Formattable(n.note.note[k].string[1].value.style[1])
                         /\ Len(hc.html[k].contents)
                              = Cardinality(Formattable(n.note.note[k].string[1].value.style[1]))

----------------------------------------------------------------------------
(* The path of a variant                                                    *)

\* the requested variants (title, path, width, height) of the entries of a
\* fragment that hold both details
BothVariants(hc) ==
    UNION {{[title |-> hc.missing_images[m].title,
             loc |-> hc.missing_images[m].details[d].loc,
             width |-> hc.missing_images[m].details[d].width,
             height |-> hc.missing_images[m].details[d].height] : d \in 1..2} :
              m \in {i \in 1..Len(hc.missing_images) :
                        Len(hc.missing_images[i].details) = 2}}

\* C23 as stated: two requested variants of a fragment with the same title,
\* width and height have the same path.
C23_PathFromTriple ==
    \A hc \in Fragments : \A v1, v2 \in BothVariants(hc) :
        (v1.title = v2.title /\ v1.width = v2.width /\ v1.height = v2.height)
        => v1.loc = v2.loc

\* C23 (amended): the path of a requested variant is the file name of an
\* img tag of the note as it is written, or the name of the big file of its
\* title, and variants with the same path have the same title, width and
\* height.
C23_PathAsWritten ==
    \A hc \in Fragments : \A v1 \in BothVariants(hc) :
        /\ \/ \E k \in 1..Len(NoteOf(hc).note) : NoteOf(hc).note[k].src = Some(v1.loc)
           \/ \E x \in ImgExts, b \in ImgBases :
                 v1.title = b \o <<".">> \o x /\ v1.loc = BigNameOf(b, x)
        /\ \A v2 \in BothVariants(hc) : v1.loc = v2.loc => v1 = v2

\* p_w3_h2.jpg and p_h2_w3.jpg of one note are two requests for p.jpg at
\* 3x2 under two paths
C23_Witness ==
    \E hc \in Fragments :
        /\ Len(hc.missing_images) = 2
        /\ Len(hc.missing_images[1].details) = 2
        /\ Len(hc.missing_images[2].details) = 2
        /\ hc.missing_images[1].title = hc.missing_images[2].title
        /\ hc.missing_images[1].details[1].width = Some(3)
        /\ hc.missing_images[2].details[1].width = Some(3)
        /\ hc.missing_images[1].details[1].height = Some(2)
        /\ hc.missing_images[2].details[1].height = Some(2)
        /\ hc.missing_images[1].details[1].loc = <<"p", "_", "w", "3", "_", "h", "2", ".", "j", "p", "g">>
        /\ hc.missing_images[2].details[1].loc = <<"p", "_", "h", "2", "_", "w", "3", ".", "j", "p", "g">>

----------------------------------------------------------------------------
(* SpecStem: discover_missing_images on file names p_<token>_..._<token>.j  *)

MaxTokens == 3

StemTokens == {<<"w", "3">>, <<"h", "2">>, <<"w", "1", "2">>, <<"w", "x">>, <<"h">>, <<"x">>}

RECURSIVE JoinTokens(_)
JoinTokens(toks) ==
    IF toks = <<>> THEN <<>> ELSE <<"_">> \o toks[1] \o JoinTokens(Tail(toks))

InitStem ==
    /\ disk = {} /\ twp_tabs = <<>> /\ st = "call" /\ info = <<>> /\ fetches = <<>>
    /\ queries = <<>> /\ wg = WG_TabbedWebsite
    /\ pages = <<>> /\ hist = <<>> /\ env = [op |-> "none"]
    /\ ret = None
    /\ \E toks \in SeqUpTo(StemTokens, MaxTokens) :
          call = [op |-> "discover_missing_images", tokens |-> toks,
                  src |-> <<"p">> \o JoinTokens(toks) \o <<".", "j">>]

\* replace_img line 277: self.discover_missing_images(src), in an empty
\* image directory
DiscoverMissingImages ==
    /\ call.op = "discover_missing_images"
    /\ ret = None
    /\ ret' = Some(discover_missing_images(<<>>, call.src, {}))
    /\ UNCHANGED <<env, disk, twp_tabs, st, info, fetches, queries, wg, pages,
                 hist, call>>

NextStem == DiscoverMissingImages

SpecStem == InitStem /\ [][NextStem]_vars

\* the value of the last token of toks that is c followed by digits
RECURSIVE LastSize(_, _)
LastSize(toks, c) ==
    IF toks = <<>> THEN None
    ELSE IF StartsWith(toks[Len(toks)], c) /\ IntOk(Tail1(toks[Len(toks)]))
    THEN Some(IntVal(Tail1(toks[Len(toks)])))
    ELSE LastSize(SubSeq(toks, 1, Len(toks) - 1), c)

\* the tokens that the decoder reads: the first, and the second when there
\* are exactly two
ReadTokens(toks) ==
    IF Len(toks) = 2 THEN toks ELSE IF Len(toks) >= 1 THEN <<toks[1]>> ELSE <<>>

\* a token that starts with w or h and does not go on with digits only
Malformed(tok) ==
    (StartsWith(tok, "w") \/ StartsWith(tok, "h")) /\ ~IntOk(Tail1(tok))

----------------------------------------------------------------------------
(* The ids of the headings of a page                                        *)

\* the headings with an id in the content blocks of a page of
\* zotero_reader.py: block, position and id
PageHeadings(page) ==
    UNION {{[block |-> k, pos |-> i, id |-> page.tabs_content[k].html[i].id] :
               i \in {j \in 1..Len(page.tabs_content[k].html) :
                         /\ page.tabs_content[k].html[j].tag = "h"
                         /\ ~IsNone(page.tabs_content[k].html[j].id)}} :
              k \in 1..Len(page.tabs_content)}

\* the same for a page that website_generator.py wrote
WG_PageHeadings(page) ==
    UNION {{[block |-> k, pos |-> i, id |-> page.content[k].html[1][i].id] :
               i \in {j \in 1..Len(page.content[k].html[1]) :
                         /\ page.content[k].html[1][j].tag = "h"
                         /\ ~IsNone(page.content[k].html[1][j].id)}} :
              k \in 1..Len(page.content)}

\* C25: in every page written, two headings at different places have
\* different ids.
C25_UniqueAnchors ==
    /\ call.op = "test_tabs"
       => \A j \in 1..Len(pages) : \A h1, h2 \in PageHeadings(pages[j]) :
             h1.id = h2.id => h1 = h2
    /\ call.op = "website_generator"
       => \A j \in 1..Len(pages) :
             (pages[j].page # None /\ pages[j].page[1] # None)
             => \A h1, h2 \in WG_PageHeadings(pages[j].page[1][1]) : h1.id = h2.id => h1 = h2

----------------------------------------------------------------------------
(* The table of contents                                                    *)

\* C26: for every tab of the page, get_tab_content returns, and the table of
\* contents it shows has one entry per heading of the fragment shown, in
\* the order of the headings, with the level, the text (also when it is
\* empty) and '#' and the id of the heading.
C26_TocEntries ==
    st = "initialized"
    => \A k \in 1..Len(twp_tabs) :
          LET content == get_tab_content(twp_tabs[k])
              hs == HeadingsOf(content.html)
          IN  /\ content.exc = "none"
              /\ Len(content.toc) = Len(hs)
              /\ \A i \in 1..Len(content.toc) :
                    /\ content.toc[i].class = hs[i].level
                    /\ content.toc[i].string = hs[i].text
                    /\ ~IsNone(hs[i].id)
                    /\ content.toc[i].href = <<"#">> \o hs[i].id[1]

----------------------------------------------------------------------------
(* create_image_file never enlarges                                         *)

\* the bound does not act on an axis of native length n
Ineffective(bound, n) == IsNone(bound) \/ bound[1] >= n

\* C27: the file written by create_image_file is no wider and no higher than
\* the image; a bound that is absent or not smaller than the native length
\* of its axis leaves the size to the other bound alone, and with no
\* effective bound the file has the native size.
C27_NeverEnlarges ==
    (call.op = "create_image_file" /\ ~IsNone(ret))
    => LET img_w == call.image.remote.size[1]
           img_h == call.image.remote.size[2]
       IN  \A f \in ret[1].w.disk :
              /\ f.size[1] <= img_w /\ f.size[2] <= img_h
              /\ (Ineffective(call.width, img_w) /\ Ineffective(call.height, img_h))
                    => f.size = <<img_w, img_h>>
              /\ (Ineffective(call.width, img_w) /\ ~Ineffective(call.height, img_h))
                    => f.size = <<(call.height[1] * img_w) \div img_h, call.height[1]>>
              /\ (~Ineffective(call.width, img_w) /\ Ineffective(call.height, img_h))
                    => f.size = <<call.width[1], (call.width[1] * img_h) \div img_w>>

\* a 7x5 image with the bounds 8x4 was written as 5x4, as with the height
\* bound alone
C27_Witness ==
    /\ call.op = "create_image_file"
    /\ call.image.remote.size = <<7, 5>>
    /\ call.width = Some(8) /\ call.height = Some(4)
    /\ ~IsNone(ret)
    /\ \E f \in ret[1].w.disk : f.name = Target /\ f.size = <<5, 4>>

----------------------------------------------------------------------------
(* One button and one content block per tab                                 *)

\* the tab has no fragment, or several of which none carries the main-text tag
NoPrimary(tab) ==
    \/ Len(tab.html_content) = 0
    \/ Len(tab.html_content) >= 2 /\ Tagged(tab) = {}

----------------------------------------------------------------------------
(* The links of the table of contents                                       *)

\* the ids that the headings of a fragment of zotero_reader carry
HeadingIds(html) ==
    {html[k].id[1] : k \in {j \in 1..Len(html) : html[j].tag = "h" /\ ~IsNone(html[j].id)}}

\* the ids that the headings of a fragment of website_generator carry
WG_HeadingIds(html) ==
    {html[k].id : k \in {j \in 1..Len(html) : WG_IsHeading(html[j]) /\ ~IsNone(html[j].id)}}

\* the table that _process_toc has put before the text links to headings
\* of the text
WG_TocResolved(html) ==
    (Len(html) > 0 /\ html[1].tag = "toc")
    => \A i \in 1..Len(html[1].entries) : html[1].entries[i].href \in WG_HeadingIds(html)

\* C29: make_toc never meets a heading without id in a fragment of the tab
\* list, and every entry of the table it builds, and of the tables in the
\* pages written, links to '#' and an id that a heading of the same
\* fragment carries; so it is for _process_toc after _process_h_tags on the
\* fragments of website_generator and in the pages it writes.
C29_TocLinksResolve ==
    /\ \A hc \in Fragments :
          LET Resolved(t) ==
                  /\ t.exc # "KeyError"
                  /\ \A i \in 1..Len(t.toc) :
                        \E id \in HeadingIds(hc.html) : t.toc[i].href = <<"#">> \o id
          IN  Resolved(make_toc(hc))
    /\ st = "initialized"
       => \A n \in 1..Len(pages) : \A k \in 1..Len(pages[n].tabs_content) :
             LET block == pages[n].tabs_content[k]
             IN  \A i \in 1..Len(block.toc) :
                    \E id \in HeadingIds(block.html) : block.toc[i].href = <<"#">> \o id
    /\ st = "wg_initialized"
       => /\ \A k \in 1..Len(wg.tabs) :
                (/\ ~IsNone(wg.tabs[k].html_content)
                 /\ ~IsNone(wg.tabs[k].html_content[1].html_str))
                => LET Built(t) ==
                           /\ t.exc # "KeyError"
                           /\ t.exc = "none" => WG_TocResolved(t.hc.html_str[1])
                   IN  Built(WG_process_toc(WG_process_h_tags(wg.tabs[k].html_content[1])))
          /\ \A n \in 1..Len(pages) :
                (pages[n].page # None /\ pages[n].page[1] # None)
                => \A k \in 1..Len(pages[n].page[1][1].content) :
                      LET block == pages[n].page[1][1].content[k]
                      IN  ~IsNone(block.html) => WG_TocResolved(block.html[1])

\* a page was written whose fragment has two headings, and its table links
\* to head_0 and head_1
C29_Witness ==
    /\ st = "initialized"
    /\ Len(pages) > 0
    /\ Len(pages[1].tabs_content) = 1
    /\ Len(pages[1].tabs_content[1].toc) = 2
    /\ pages[1].tabs_content[1].toc[1].href = <<"#">> \o HeadPrefix \o <<"0">>
    /\ pages[1].tabs_content[1].toc[2].href = <<"#">> \o HeadPrefix \o <<"1">>
    /\ HeadingIds(pages[1].tabs_content[1].html)
          = {HeadPrefix \o <<"0">>, HeadPrefix \o <<"1">>}

----------------------------------------------------------------------------
(* Rendering again                                                          *)

\* C30: (as claimed) a call that renders the page leaves the tab list, the
\* fragments of the tabs and their stored HTML as they were, and every call
\* writes the page that the first call wrote.
C30_RenderRepeatable ==
    /\ [][(CreateHtmlFile \/ WG_CreateWebsite) => (twp_tabs' = twp_tabs /\ wg' = wg)]_vars
    /\ [](\A n \in 1..Len(pages) : pages[n] = pages[1])

====
